---- MODULE Spec2Model ----
(***************************************************************************)
(* Model of the LineBalancer agent core (lib/agent.ts): the bottleneck     *)
(* analyzer analyzeBottlenecks and the what-if simulator runSimulation.    *)
(*                                                                         *)
(* Both are synchronous functions of their arguments.  A behaviour of the  *)
(* model is one call: the initial state holds the arguments, and one       *)
(* action models the whole call and leaves the value it returns.           *)
(*                                                                         *)
(* The alerts table of lib/database.ts is modelled with the three          *)
(* operations the application has on it: insertAlert, acknowledgeAlert and *)
(* getActiveAlerts.                                                        *)
(*                                                                         *)
(* Several calls in progress at once are modelled step by step, each call  *)
(* working on the bindings of its own activation (SpecConcurrent).         *)
(*                                                                         *)
(* JavaScript numbers are modelled as exact rationals extended with NaN,   *)
(* +Infinity and -Infinity, following the IEEE-754 rules the code relies   *)
(* on (x/0, 0/0, comparisons with NaN, Math.min/Math.max/Math.round of     *)
(* NaN).  Three approximations are made and stated here once:              *)
(*   - finite arithmetic is exact (no binary rounding error);              *)
(*   - zero is unsigned and behaves as +0 when it is a divisor;            *)
(*   - Math.sqrt of a positive number is taken to SqrtScale decimal        *)
(*     precision (floor), see MathSqrt.                                    *)
(***************************************************************************)
EXTENDS Integers, Sequences, FiniteSets, TLC

\* ------------------------------------------------------------------------
\* Bounds of the model
\* ------------------------------------------------------------------------

\* longest stationData list passed to analyzeBottlenecks
MaxStations == 2

\* longest shiftData list passed to analyzeBottlenecks
MaxShifts == 2

\* longest station list passed to runSimulation
MaxSimStations == 2

\* longest change list passed to runSimulation
MaxChanges == 2

\* largest variance percent of the stations graded for severity
MaxVariance == 25

\* number of distinct alert ids
MaxAlerts == 3

\* last second of the database clock
MaxClock == 1

\* number of calls in progress at once
MaxCalls == 2

\* the number of words of a query
MaxWords == 3

\* the number of calls of the async functions of the dashboard
MaxRequests == 3

\* the number of calls recorded of the handlers of the simulation panel
MaxPanelOps == 4

\* ------------------------------------------------------------------------
\* JavaScript numbers
\* ------------------------------------------------------------------------

RECURSIVE GCD(_, _)
GCD(a, b) == IF b = 0 THEN a ELSE GCD(b, a % b)

Abs(i) == IF i < 0 THEN -i ELSE i

\* the finite number n/d, in lowest terms with a positive denominator
Fin(n, d) ==
    LET s == IF d < 0 THEN -1 ELSE 1
        g == GCD(Abs(n), Abs(d))
    IN  [kind |-> "fin", num |-> (s * n) \div g, den |-> (s * d) \div g]

Num(i) == [kind |-> "fin", num |-> i, den |-> 1]

NaN == [kind |-> "nan", num |-> 0, den |-> 1]

PosInf == [kind |-> "inf", num |-> 1, den |-> 1]

NegInf == [kind |-> "inf", num |-> -1, den |-> 1]

\* the value null of a nullable numeric column
Null == [kind |-> "null", num |-> 0, den |-> 1]

Zero == Num(0)

IsFinite(x) == x.kind = "fin"

IsNaN(x) == x.kind = "nan"

\* -1, 0 or 1; not used on NaN
Sign(x) == IF x.num > 0 THEN 1 ELSE IF x.num < 0 THEN -1 ELSE 0

Inf(s) == IF s > 0 THEN PosInf ELSE NegInf

\* x + y
Add(x, y) ==
    IF IsNaN(x) \/ IsNaN(y) THEN NaN
    ELSE IF IsFinite(x) /\ IsFinite(y)
         THEN LET g == GCD(x.den, y.den)
              IN  Fin(x.num * (y.den \div g) + y.num * (x.den \div g), (x.den \div g) * y.den)
    ELSE IF IsFinite(x) THEN y
    ELSE IF IsFinite(y) THEN x
    ELSE IF x = y THEN x ELSE NaN

\* -x
Neg(x) == IF IsNaN(x) THEN NaN ELSE [x EXCEPT !.num = -x.num]

\* x - y
Sub(x, y) == Add(x, Neg(y))

\* x * y
Mul(x, y) ==
    IF IsNaN(x) \/ IsNaN(y) THEN NaN
    ELSE IF IsFinite(x) /\ IsFinite(y) THEN Fin(x.num * y.num, x.den * y.den)
    ELSE IF Sign(x) * Sign(y) = 0 THEN NaN
    ELSE Inf(Sign(x) * Sign(y))

\* x / y
Div(x, y) ==
    IF IsNaN(x) \/ IsNaN(y) THEN NaN
    ELSE IF IsFinite(x) /\ IsFinite(y)
         THEN IF y.num # 0 THEN Fin(x.num * y.den, x.den * y.num)
              ELSE IF x.num = 0 THEN NaN ELSE Inf(Sign(x))
    ELSE IF IsFinite(x) THEN Zero
    ELSE IF IsFinite(y) THEN Inf(IF y.num < 0 THEN -Sign(x) ELSE Sign(x))
    ELSE NaN

\* x < y (false when either is NaN)
Lt(x, y) ==
    IF IsNaN(x) \/ IsNaN(y) THEN FALSE
    ELSE IF IsFinite(x) /\ IsFinite(y) THEN x.num * y.den < y.num * x.den
    ELSE IF IsFinite(x) THEN Sign(y) > 0
    ELSE IF IsFinite(y) THEN Sign(x) < 0
    ELSE Sign(x) < Sign(y)

\* x > y
Gt(x, y) == Lt(y, x)

\* x <= y (false when either is NaN)
Le(x, y) == Lt(x, y) \/ (~IsNaN(x) /\ x = y)

\* x >= y
Ge(x, y) == Le(y, x)

MathMin(x, y) ==
    IF IsNaN(x) \/ IsNaN(y) THEN NaN ELSE IF Lt(y, x) THEN y ELSE x

MathMax(x, y) ==
    IF IsNaN(x) \/ IsNaN(y) THEN NaN ELSE IF Gt(y, x) THEN y ELSE x

\* Math.floor
MathFloor(x) == IF IsFinite(x) THEN Num(x.num \div x.den) ELSE x

\* Math.round: the nearest integer, halves rounded up
MathRound(x) == IF IsFinite(x) THEN Num((2 * x.num + x.den) \div (2 * x.den)) ELSE x

\* MathSqrt truncates an irrational root to a multiple of 1/SqrtScale
SqrtScale == 100

RECURSIVE ISqrt(_, _, _)
\* the largest r in lo..hi with r * r <= m, given lo * lo <= m
ISqrt(m, lo, hi) ==
    IF lo >= hi THEN lo
    ELSE LET mid == (lo + hi + 1) \div 2
         IN  IF mid * mid <= m THEN ISqrt(m, mid, hi) ELSE ISqrt(m, lo, mid - 1)

\* an upper bound of the root of m that can be squared in 32 bits
SqrtCap(m) == IF m < 46340 THEN m ELSE 46340

\* Math.sqrt: exact on perfect squares, else truncated to 1/SqrtScale
MathSqrt(x) ==
    IF IsNaN(x) THEN NaN
    ELSE IF ~IsFinite(x) THEN IF Sign(x) > 0 THEN PosInf ELSE NaN
    ELSE IF x.num < 0 THEN NaN
    ELSE LET r == ISqrt(x.num, 0, SqrtCap(x.num))
         IN  IF x.den = 1 /\ r * r = x.num THEN Num(r)
             ELSE LET m == (x.num * SqrtScale * SqrtScale) \div x.den
                  IN  Fin(ISqrt(m, 0, SqrtCap(m)), SqrtScale)

\* JavaScript truthiness of a nullable number: null, 0 and NaN are falsy
Truthy(x) == x.kind # "null" /\ ~IsNaN(x) /\ ~(IsFinite(x) /\ x.num = 0)

\* x || 0
OrZero(x) == IF Truthy(x) THEN x ELSE Zero

\* an integer-valued finite number
IsInteger(x) == IsFinite(x) /\ x.den = 1

\* ------------------------------------------------------------------------
\* Strings (sequences of one-character strings)
\* ------------------------------------------------------------------------

Digits == <<"0", "1", "2", "3", "4", "5", "6", "7", "8", "9">>

IsDigit(c) == \E i \in 1..10 : Digits[i] = c

DigitValue(c) == (CHOOSE i \in 1..10 : Digits[i] = c) - 1

\* str.replace(pat, ''): str without the first occurrence of pat, if any
RemoveFirst(str, pat) ==
    LET n == Len(pat)
        hits == {i \in 1..(Len(str) - n + 1) : SubSeq(str, i, i + n - 1) = pat}
    IN  IF hits = {} THEN str
        ELSE LET i == CHOOSE h \in hits : \A g \in hits : h <= g
             IN  SubSeq(str, 1, i - 1) \o SubSeq(str, i + n, Len(str))

RECURSIVE ParseDigits(_, _, _)
\* the value of the longest run of decimal digits of str from position i on
ParseDigits(str, i, acc) ==
    IF i > Len(str) \/ ~IsDigit(str[i]) THEN acc
    ELSE ParseDigits(str, i + 1, 10 * acc + DigitValue(str[i]))

RECURSIVE SkipSpaces(_, _)
SkipSpaces(str, i) ==
    IF i <= Len(str) /\ str[i] = " " THEN SkipSpaces(str, i + 1) ELSE i

\* parseInt(str), radix 10: leading blanks, an optional sign, then digits;
\* NaN when no digit follows; whatever follows the digits is ignored
parseInt(str) ==
    LET i == SkipSpaces(str, 1)
        signed == i <= Len(str) /\ str[i] \in {"-", "+"}
        j == IF signed THEN i + 1 ELSE i
    IN  IF j > Len(str) \/ ~IsDigit(str[j]) THEN NaN
        ELSE IF signed /\ str[i] = "-" THEN Num(-ParseDigits(str, j, 0))
        ELSE Num(ParseDigits(str, j, 0))

\* ------------------------------------------------------------------------
\* Bottleneck analyzer
\*
\* A StationData row is [station_id, target_cycle_time, avg_cycle_time,
\* stddev_cycle_time, total_downtime, variance_percent]; a ShiftData row is
\* [shift, station_id, avg_cycle_time].  station_name and sample_count are
\* left out: the code only copies them into display text.  A root cause is
\* [type, description, confidence, evidence]: description holds the fixed
\* text of the rule and the values interpolated into it, evidence the numbers
\* printed in the evidence strings, in order.
\* ------------------------------------------------------------------------

\* getSeverity with the thresholds included in the higher bucket (>=)
getSeverityInclusive(variancePercent) ==
    IF Ge(variancePercent, Num(20)) THEN "critical"
    ELSE IF Ge(variancePercent, Num(10)) THEN "high"
    ELSE IF Ge(variancePercent, Num(5)) THEN "medium"
    ELSE "low"

getSeverity(variancePercent) ==
    IF Gt(variancePercent, Num(20)) THEN "critical"
    ELSE IF Gt(variancePercent, Num(10)) THEN "high"
    ELSE IF Gt(variancePercent, Num(5)) THEN "medium"
    ELSE "low"

RECURSIVE sumDowntime(_, _)
\* allStations.reduce((sum, s) => sum + (s.total_downtime || 0), 0), from row i
sumDowntime(allStations, i) ==
    IF i > Len(allStations) THEN Zero
    ELSE Add(OrZero(allStations[i].total_downtime), sumDowntime(allStations, i + 1))

\* (stddev / avg) * 100, or 0 when the average is falsy
coefficientOfVariation(station) ==
    IF Truthy(station.avg_cycle_time)
    THEN Mul(Div(OrZero(station.stddev_cycle_time), station.avg_cycle_time), Num(100))
    ELSE Zero

varianceScore(station) == MathMin(Num(40), Mul(OrZero(station.variance_percent), Num(2)))

consistencyScore(station) == MathMin(Num(20), coefficientOfVariation(station))

stationNumber(station) == parseInt(RemoveFirst(station.station_id, <<"S", "T">>))

positionScore(station) ==
    MathMax(Zero, Sub(Num(20), Mul(stationNumber(station), Num(2))))

downtimeScore(station, allStations) ==
    LET totalDowntime == sumDowntime(allStations, 1)
    IN  IF Gt(totalDowntime, Zero)
        THEN Mul(Div(OrZero(station.total_downtime), totalDowntime), Num(20))
        ELSE Zero

calculateImpactScore(station, allStations) ==
    MathRound(Add(Add(Add(varianceScore(station), consistencyScore(station)),
                      positionScore(station)),
                  downtimeScore(station, allStations)))

RECURSIVE avgByShift(_, _, _)
\* the object built by stationShifts.reduce: one entry <<shift, average>> per
\* shift label in order of first appearance, holding the label's last average
avgByShift(stationShifts, i, acc) ==
    IF i > Len(stationShifts) THEN acc
    ELSE LET s == stationShifts[i]
             at == {j \in 1..Len(acc) : acc[j][1] = s.shift}
         IN  avgByShift(stationShifts, i + 1,
                 IF at = {} THEN Append(acc, <<s.shift, s.avg_cycle_time>>)
                 ELSE [j \in 1..Len(acc) |->
                          IF j \in at THEN <<s.shift, s.avg_cycle_time>> ELSE acc[j]])

RECURSIVE maxOf(_, _)
\* Math.max(...values) from entry i on
maxOf(entries, i) ==
    IF i > Len(entries) THEN NegInf ELSE MathMax(entries[i][2], maxOf(entries, i + 1))

RECURSIVE minOf(_, _)
\* Math.min(...values) from entry i on
minOf(entries, i) ==
    IF i > Len(entries) THEN PosInf ELSE MathMin(entries[i][2], minOf(entries, i + 1))

\* Object.entries(avgByShift).sort((a, b) => b[1] - a[1])[0]: the first entry
\* holding the greatest average
worstShiftOf(entries) ==
    LET top == maxOf(entries, 1)
        i == CHOOSE j \in 1..Len(entries) :
                 /\ entries[j][2] = top
                 /\ \A h \in 1..(j - 1) : entries[h][2] # top
    IN  entries[i]

\* (max - min) / target * 100 over the shift averages
shiftVariancePercentOf(station, entries) ==
    Mul(Div(Sub(maxOf(entries, 1), minOf(entries, 1)), station.target_cycle_time),
        Num(100))

\* shiftCauses over the shift rows of every station
shiftCausesAllStations(station, shiftData) ==
    LET stationShifts == shiftData
        entries == avgByShift(stationShifts, 1, <<>>)
        shiftVariancePercent == shiftVariancePercentOf(station, entries)
        worstShift == worstShiftOf(entries)
    IN  IF Len(stationShifts) > 1 /\ Gt(shiftVariancePercent, Num(10))
        THEN << [type |-> "shift",
                 description |-> [text |-> "shift shows % higher cycle times",
                                  shift |-> worstShift[1],
                                  percent |-> MathRound(shiftVariancePercent)],
                 confidence |-> MathMin(Fin(9, 10), Div(shiftVariancePercent, Num(20))),
                 evidence |-> <<MathRound(worstShift[2]), station.target_cycle_time>>] >>
        ELSE <<>>

shiftCauses(station, shiftData) ==
    LET stationShifts == SelectSeq(shiftData, LAMBDA s : s.station_id = station.station_id)
        entries == avgByShift(stationShifts, 1, <<>>)
        shiftVariancePercent == shiftVariancePercentOf(station, entries)
        worstShift == worstShiftOf(entries)
    IN  IF Len(stationShifts) > 1 /\ Gt(shiftVariancePercent, Num(10))
        THEN << [type |-> "shift",
                 description |-> [text |-> "shift shows % higher cycle times",
                                  shift |-> worstShift[1],
                                  percent |-> MathRound(shiftVariancePercent)],
                 confidence |-> MathMin(Fin(9, 10), Div(shiftVariancePercent, Num(20))),
                 evidence |-> <<MathRound(worstShift[2]), station.target_cycle_time>>] >>
        ELSE <<>>

\* operatorCauses with the confidence left uncapped (cv / 25)
operatorCausesUncapped(station) ==
    LET cv == coefficientOfVariation(station)
    IN  IF Gt(cv, Num(15))
        THEN << [type |-> "operator",
                 description |-> [text |-> "High cycle time variability suggests inconsistent operator performance",
                                  shift |-> "",
                                  percent |-> Null],
                 confidence |-> Div(cv, Num(25)),
                 evidence |-> <<MathRound(cv), MathRound(OrZero(station.stddev_cycle_time))>>] >>
        ELSE <<>>

operatorCauses(station) ==
    LET cv == coefficientOfVariation(station)
    IN  IF Gt(cv, Num(15))
        THEN << [type |-> "operator",
                 description |-> [text |-> "High cycle time variability suggests inconsistent operator performance",
                                  shift |-> "",
                                  percent |-> Null],
                 confidence |-> MathMin(Fin(85, 100), Div(cv, Num(25))),
                 evidence |-> <<MathRound(cv), MathRound(OrZero(station.stddev_cycle_time))>>] >>
        ELSE <<>>

\* slownessCauses without the test of the coefficient of variation
slownessCausesAnyVariability(station) ==
    IF Gt(OrZero(station.variance_percent), Num(15))
    THEN << [type |-> "equipment",
             description |-> [text |-> "Consistently slow performance suggests equipment limitations",
                              shift |-> "",
                              percent |-> Null],
             confidence |-> Fin(75, 100),
             evidence |-> <<MathRound(OrZero(station.variance_percent))>>] >>
    ELSE <<>>

slownessCauses(station) ==
    IF Gt(OrZero(station.variance_percent), Num(15))
       /\ Lt(coefficientOfVariation(station), Num(10))
    THEN << [type |-> "equipment",
             description |-> [text |-> "Consistently slow performance suggests equipment limitations",
                              shift |-> "",
                              percent |-> Null],
             confidence |-> Fin(75, 100),
             evidence |-> <<MathRound(OrZero(station.variance_percent))>>] >>
    ELSE <<>>

downtimeCauses(station) ==
    IF Gt(OrZero(station.total_downtime), Num(60))
    THEN << [type |-> "equipment",
             description |-> [text |-> "Significant downtime indicates equipment reliability issues",
                              shift |-> "",
                              percent |-> Null],
             confidence |-> Fin(8, 10),
             evidence |-> <<MathRound(OrZero(station.total_downtime))>>] >>
    ELSE <<>>

\* the root causes of one station, in the order the rules are evaluated
analyzeRootCauses(station, shiftData) ==
    shiftCauses(station, shiftData) \o operatorCauses(station)
        \o slownessCauses(station) \o downtimeCauses(station)

\* `rec-${station.station_id}-${suffix}`
recId(station, suffix) == <<"r", "e", "c", "-">> \o station.station_id \o <<"-">> \o suffix

\* the recommendations pushed for one root cause, numbered from priority on
recommendationsFor(station, cause, priority) ==
    IF cause.type = "shift"
    THEN << [id |-> recId(station, <<"s", "h", "i", "f", "t">>),
             type |-> "training",
             expectedImprovement |-> MathRound(Mul(cause.confidence, Num(15))),
             implementationCost |-> "low",
             timeToImplement |-> "1-2 weeks",
             priority |-> priority] >>
    ELSE IF cause.type = "operator"
    THEN << [id |-> recId(station, <<"o", "p", "e", "r", "a", "t", "o", "r">>),
             type |-> "add_operator",
             expectedImprovement |-> MathRound(Mul(cause.confidence, Num(20))),
             implementationCost |-> "medium",
             timeToImplement |-> "2-4 weeks",
             priority |-> priority],
            [id |-> recId(station, <<"t", "r", "a", "i", "n", "i", "n", "g">>),
             type |-> "training",
             expectedImprovement |-> MathRound(Mul(cause.confidence, Num(10))),
             implementationCost |-> "low",
             timeToImplement |-> "1 week",
             priority |-> priority + 1] >>
    ELSE IF cause.type = "equipment"
    THEN << [id |-> recId(station, <<"e", "q", "u", "i", "p", "m", "e", "n", "t">>),
             type |-> "equipment",
             expectedImprovement |-> MathRound(Mul(cause.confidence, Num(25))),
             implementationCost |-> "high",
             timeToImplement |-> "4-8 weeks",
             priority |-> priority],
            [id |-> recId(station, <<"m", "a", "i", "n", "t", "e", "n", "a", "n", "c", "e">>),
             type |-> "maintenance",
             expectedImprovement |-> MathRound(Mul(cause.confidence, Num(12))),
             implementationCost |-> "medium",
             timeToImplement |-> "2 weeks",
             priority |-> priority + 1] >>
    ELSE <<>>

\* rebalanceFor with the threshold included (impactScore >= 50)
rebalanceForInclusive(station, impactScore, priority) ==
    IF Ge(impactScore, Num(50))
    THEN << [id |-> recId(station, <<"r", "e", "b", "a", "l", "a", "n", "c", "e">>),
             type |-> "rebalance",
             expectedImprovement |-> Num(15),
             implementationCost |-> "medium",
             timeToImplement |-> "2-3 weeks",
             priority |-> priority] >>
    ELSE <<>>

\* the rebalance recommendation of a high-impact station
rebalanceFor(station, impactScore, priority) ==
    IF Gt(impactScore, Num(50))
    THEN << [id |-> recId(station, <<"r", "e", "b", "a", "l", "a", "n", "c", "e">>),
             type |-> "rebalance",
             expectedImprovement |-> Num(15),
             implementationCost |-> "medium",
             timeToImplement |-> "2-3 weeks",
             priority |-> priority] >>
    ELSE <<>>

RECURSIVE causeLoopRestarting(_, _, _, _, _)
\* causeLoop with the counter set back to 1 after every cause
causeLoopRestarting(station, rootCauses, impactScore, i, priority) ==
    IF i > Len(rootCauses) THEN rebalanceFor(station, impactScore, priority)
    ELSE recommendationsFor(station, rootCauses[i], priority)
             \o causeLoopRestarting(station, rootCauses, impactScore, i + 1, 1)

RECURSIVE causeLoopReversed(_, _, _, _, _)
\* causeLoop going through the root causes from the last to the first
causeLoopReversed(station, rootCauses, impactScore, i, priority) ==
    IF i > Len(rootCauses) THEN rebalanceFor(station, impactScore, priority)
    ELSE LET pushed == recommendationsFor(station, rootCauses[Len(rootCauses) + 1 - i],
                                          priority)
         IN  pushed \o causeLoopReversed(station, rootCauses, impactScore, i + 1,
                                         priority + Len(pushed))

RECURSIVE causeLoop(_, _, _, _, _)
\* the for loop over rootCauses from cause i on, then the rebalance test;
\* priority is the running counter
causeLoop(station, rootCauses, impactScore, i, priority) ==
    IF i > Len(rootCauses) THEN rebalanceFor(station, impactScore, priority)
    ELSE LET pushed == recommendationsFor(station, rootCauses[i], priority)
         IN  pushed \o causeLoop(station, rootCauses, impactScore, i + 1,
                                 priority + Len(pushed))

generateRecommendations(station, rootCauses, impactScore) ==
    causeLoop(station, rootCauses, impactScore, 1, 1)

\* the BottleneckAnalysis pushed for one station
analysisOf(station, stationData, shiftData) ==
    LET variancePercent == OrZero(station.variance_percent)
        impactScore == calculateImpactScore(station, stationData)
        rootCauses == analyzeRootCauses(station, shiftData)
    IN  [stationId |-> station.station_id,
         severity |-> getSeverity(variancePercent),
         avgCycleTime |-> station.avg_cycle_time,
         targetCycleTime |-> station.target_cycle_time,
         variancePercent |-> variancePercent,
         frequency |-> MathFloor(Div(impactScore, Num(10))),
         impactScore |-> impactScore,
         rootCauses |-> rootCauses,
         recommendations |-> generateRecommendations(station, rootCauses, impactScore)]

RECURSIVE analysesOfUnfiltered(_, _, _)
\* analysesOf with the test of the average left out: every station is analysed
analysesOfUnfiltered(stationData, shiftData, i) ==
    IF i > Len(stationData) THEN <<>>
    ELSE <<analysisOf(stationData[i], stationData, shiftData)>>
             \o analysesOfUnfiltered(stationData, shiftData, i + 1)

RECURSIVE analysesOf(_, _, _)
\* the for loop of analyzeBottlenecks from station i on: a station with a
\* falsy average (null, 0) is passed over
analysesOf(stationData, shiftData, i) ==
    IF i > Len(stationData) THEN <<>>
    ELSE (IF Truthy(stationData[i].avg_cycle_time)
          THEN <<analysisOf(stationData[i], stationData, shiftData)>>
          ELSE <<>>) \o analysesOf(stationData, shiftData, i + 1)

\* the comparator (a, b) => b.impactScore - a.impactScore
byImpactDescending(a, b) == Sub(b.impactScore, a.impactScore)

\* x inserted into the sorted list s after every element not ordered after it
insertSorted(s, x) ==
    LET stay == {j \in 1..Len(s) : ~Gt(byImpactDescending(s[j], x), Zero)}
        p == IF stay = {} THEN 0 ELSE CHOOSE j \in stay : \A h \in stay : h <= j
    IN  SubSeq(s, 1, p) \o <<x>> \o SubSeq(s, p + 1, Len(s))

RECURSIVE stableSort(_, _, _)
\* Array.prototype.sort with a consistent comparator: stable
stableSort(list, i, acc) ==
    IF i > Len(list) THEN acc ELSE stableSort(list, i + 1, insertSorted(acc, list[i]))

\* every reordering of list
reorderings(list) ==
    LET n == Len(list)
    IN  {[i \in 1..n |-> list[p[i]]] :
            p \in {q \in [1..n -> 1..n] : \A i, j \in 1..n : q[i] = q[j] => i = j}}

\* the lists analyses.sort(comparator) may return: the stable order when the
\* comparator is consistent; when it returns NaN for some pair the order is
\* implementation-defined
sortOutcomes(list) ==
    IF \A i, j \in 1..Len(list) : ~IsNaN(byImpactDescending(list[i], list[j]))
    THEN {stableSort(list, 1, <<>>)}
    ELSE reorderings(list)

\* the lists analyzeBottlenecks(stationData, shiftData) may return
analyzeBottlenecks(stationData, shiftData) ==
    sortOutcomes(analysesOf(stationData, shiftData, 1))

\* ------------------------------------------------------------------------
\* What-if simulation
\*
\* A station is [id, targetCycleTime, avgCycleTime, operatorCount]; a change
\* is [type, stationId, value].  name and description are display text.
\*
\* Station objects live in a heap, a sequence of objects addressed by their
\* position: the objects of the caller's list input.stations are the first
\* ones, and every object the call creates is appended.  A write through a
\* reference changes the object at that address for every holder of it.
\* ------------------------------------------------------------------------

\* applyChange with the improvement of add_operator taken from the operator
\* count before the addition
applyChangeStaleCount(station, modified, change) ==
    IF change.type = "add_operator"
    THEN LET improvement ==
                 Sub(Num(1), Mul(Mul(Fin(15, 100), change.value),
                                 Div(Num(1), MathSqrt(modified.operatorCount))))
         IN  [modified EXCEPT !.operatorCount = Add(modified.operatorCount, change.value),
                              !.avgCycleTime = Mul(station.avgCycleTime, improvement)]
    ELSE IF change.type = "remove_operator"
    THEN LET degradation == Add(Num(1), Mul(Fin(2, 10), change.value))
         IN  [modified EXCEPT
                 !.operatorCount = MathMax(Num(1), Sub(modified.operatorCount, change.value)),
                 !.avgCycleTime = Mul(station.avgCycleTime, degradation)]
    ELSE IF change.type = "change_cycle_time"
    THEN [modified EXCEPT !.avgCycleTime = change.value]
    ELSE modified

\* applyChange with the operator changes scaling the cycle time of the working
\* copy, so that successive changes compound
applyChangeCompounding(station, modified, change) ==
    IF change.type = "add_operator"
    THEN LET operatorCount == Add(modified.operatorCount, change.value)
             improvement ==
                 Sub(Num(1), Mul(Mul(Fin(15, 100), change.value),
                                 Div(Num(1), MathSqrt(operatorCount))))
         IN  [modified EXCEPT !.operatorCount = operatorCount,
                              !.avgCycleTime = Mul(modified.avgCycleTime, improvement)]
    ELSE IF change.type = "remove_operator"
    THEN LET degradation == Add(Num(1), Mul(Fin(2, 10), change.value))
         IN  [modified EXCEPT
                 !.operatorCount = MathMax(Num(1), Sub(modified.operatorCount, change.value)),
                 !.avgCycleTime = Mul(modified.avgCycleTime, degradation)]
    ELSE IF change.type = "change_cycle_time"
    THEN [modified EXCEPT !.avgCycleTime = change.value]
    ELSE modified

\* applyChange with change_cycle_time adding its value to the cycle time of
\* the working copy
applyChangeRelative(station, modified, change) ==
    IF change.type = "add_operator"
    THEN LET operatorCount == Add(modified.operatorCount, change.value)
             improvement ==
                 Sub(Num(1), Mul(Mul(Fin(15, 100), change.value),
                                 Div(Num(1), MathSqrt(operatorCount))))
         IN  [modified EXCEPT !.operatorCount = operatorCount,
                              !.avgCycleTime = Mul(station.avgCycleTime, improvement)]
    ELSE IF change.type = "remove_operator"
    THEN LET degradation == Add(Num(1), Mul(Fin(2, 10), change.value))
         IN  [modified EXCEPT
                 !.operatorCount = MathMax(Num(1), Sub(modified.operatorCount, change.value)),
                 !.avgCycleTime = Mul(station.avgCycleTime, degradation)]
    ELSE IF change.type = "change_cycle_time"
    THEN [modified EXCEPT !.avgCycleTime = Add(modified.avgCycleTime, change.value)]
    ELSE modified

\* one iteration of the switch over change.type; station is the input
\* station, modified the working copy
applyChange(station, modified, change) ==
    IF change.type = "add_operator"
    THEN LET operatorCount == Add(modified.operatorCount, change.value)
             improvement ==
                 Sub(Num(1), Mul(Mul(Fin(15, 100), change.value),
                                 Div(Num(1), MathSqrt(operatorCount))))
         IN  [modified EXCEPT !.operatorCount = operatorCount,
                              !.avgCycleTime = Mul(station.avgCycleTime, improvement)]
    ELSE IF change.type = "remove_operator"
    THEN LET degradation == Add(Num(1), Mul(Fin(2, 10), change.value))
         IN  [modified EXCEPT
                 !.operatorCount = MathMax(Num(1), Sub(modified.operatorCount, change.value)),
                 !.avgCycleTime = Mul(station.avgCycleTime, degradation)]
    ELSE IF change.type = "change_cycle_time"
    THEN [modified EXCEPT !.avgCycleTime = change.value]
    ELSE modified

\* let modified = station: the working copy is the station object itself
aliasStation(heap, ref) == [heap |-> heap, ref |-> ref]

\* the working copy starts from the target cycle time, not the measured one
spreadFromTarget(heap, ref) ==
    [heap |-> Append(heap, [heap[ref] EXCEPT !.avgCycleTime = heap[ref].targetCycleTime]),
     ref |-> Len(heap) + 1]

\* let modified = { ...station }: a new object holding the properties of the
\* station; the heap after the allocation and the reference of the new object
spreadStation(heap, ref) == [heap |-> Append(heap, heap[ref]), ref |-> Len(heap) + 1]

RECURSIVE applyChanges(_, _, _, _, _)
\* the for loop over stationChanges from change i on: each change reads the
\* object at station and writes the object at modified; the heap after it
applyChanges(heap, station, modified, stationChanges, i) ==
    IF i > Len(stationChanges) THEN heap
    ELSE applyChanges(
             [heap EXCEPT ![modified] =
                 applyChange(heap[station], heap[modified], stationChanges[i])],
             station, modified, stationChanges, i + 1)

\* modifiedStation applying every change of the list, whatever its stationId
modifiedStationAnyTarget(heap, ref, changes) ==
    LET copy == spreadStation(heap, ref)
    IN  [heap |-> applyChanges(copy.heap, ref, copy.ref, changes, 1),
         ref |-> copy.ref]

\* the callback of input.stations.map on the station at ref: the heap after
\* it and the reference it returns
modifiedStation(heap, ref, changes) ==
    LET stationChanges == SelectSeq(changes, LAMBDA c : c.stationId = heap[ref].id)
        copy == spreadStation(heap, ref)
    IN  [heap |-> applyChanges(copy.heap, ref, copy.ref, stationChanges, 1),
         ref |-> copy.ref]

RECURSIVE mapStations(_, _, _, _, _)
\* input.stations.map(callback) from station k of n on; refs holds the
\* references returned so far
mapStations(heap, n, changes, k, refs) ==
    IF k > n THEN [heap |-> heap, refs |-> refs]
    ELSE LET r == modifiedStation(heap, k, changes)
         IN  mapStations(r.heap, n, changes, k + 1, Append(refs, r.ref))

\* the array modifiedStations built by the map
modifiedStationsOf(stations, changes) ==
    LET mapped == mapStations(stations, Len(stations), changes, 1, <<>>)
    IN  [k \in 1..Len(stations) |-> mapped.heap[mapped.refs[k]]]

\* the caller's station objects as the map leaves them
stationsAfter(stations, changes) ==
    SubSeq(mapStations(stations, Len(stations), changes, 1, <<>>).heap, 1, Len(stations))

RECURSIVE findBottleneck(_, _, _)
\* the first loop of calculateLineMetrics from station i on; acc is
\* [bottleneckStation, maxCycleTime]
findBottleneck(stations, i, acc) ==
    IF i > Len(stations) THEN acc
    ELSE findBottleneck(stations, i + 1,
             IF Gt(stations[i].avgCycleTime, acc.maxCycleTime)
             THEN [bottleneckStation |-> stations[i].id,
                   maxCycleTime |-> stations[i].avgCycleTime]
             ELSE acc)

RECURSIVE sumOf(_, _)
\* values.reduce((sum, v) => sum + v, 0) from value i on
sumOf(values, i) ==
    IF i > Len(values) THEN Zero ELSE Add(values[i], sumOf(values, i + 1))

\* the value null of bottleneckStation
NoStation == <<>>

\* Math.round(x * 10) / 10
roundTenth(x) == Div(MathRound(Mul(x, Num(10))), Num(10))

calculateLineMetrics(stations) ==
    LET found == findBottleneck(stations, 1,
                     [bottleneckStation |-> NoStation, maxCycleTime |-> Zero])
        maxCycleTime == found.maxCycleTime
        count == Num(Len(stations))
        avgCycleTime ==
            Div(sumOf([i \in 1..Len(stations) |-> stations[i].avgCycleTime], 1), count)
        ids == {stations[i].id : i \in 1..Len(stations)}
        lastOf(id) == CHOOSE i \in 1..Len(stations) :
                          /\ stations[i].id = id
                          /\ \A j \in (i + 1)..Len(stations) : stations[j].id # id
        waitTimeTotal ==
            sumOf([i \in 1..Len(stations) |->
                       Sub(maxCycleTime, stations[i].avgCycleTime)], 1)
        totalTargetTime ==
            sumOf([i \in 1..Len(stations) |-> stations[i].targetCycleTime], 1)
        lineEfficiency == Mul(Div(totalTargetTime, Mul(maxCycleTime, count)), Num(100))
    IN  [throughputPerHour |-> MathFloor(Div(Num(3600), maxCycleTime)),
         avgCycleTime |-> roundTenth(avgCycleTime),
         lineEfficiency |-> roundTenth(lineEfficiency),
         bottleneckStation |-> found.bottleneckStation,
         waitTimeTotal |-> MathRound(waitTimeTotal),
         utilizationByStation |->
             [id \in ids |->
                 MathMin(Num(1), Div(stations[lastOf(id)].avgCycleTime, maxCycleTime))]]

\* the value runSimulation returns
runSimulation(input) ==
    [baseline |-> calculateLineMetrics(input.stations),
     projected |-> calculateLineMetrics(modifiedStationsOf(input.stations, input.changes))]

\* ------------------------------------------------------------------------
\* Alerts table
\*
\* The table is the sequence of its rows in insertion order; a row is
\* [id, severity, timestamp, acknowledged].  type, station_id, message,
\* details and resolved_at are stored and returned but decide nothing.
\* ------------------------------------------------------------------------

\* CASE severity WHEN 'critical' THEN 1 WHEN 'warning' THEN 2 ELSE 3 END
severityRank(severity) ==
    IF severity = "critical" THEN 1 ELSE IF severity = "warning" THEN 2 ELSE 3

\* the whole table, acknowledged rows included
allRows(table) == table

\* WHERE acknowledged = 0
activeRows(table) == SelectSeq(table, LAMBDA row : row.acknowledged = 0)

\* ORDER BY the severity rank, timestamp DESC: row a must come before row b
sortsBefore(a, b) ==
    \/ severityRank(a.severity) < severityRank(b.severity)
    \/ /\ severityRank(a.severity) = severityRank(b.severity)
       /\ a.timestamp > b.timestamp

\* the lists getActiveAlerts() may return: the selected rows in an order the
\* ORDER BY clause allows (rows equal in both keys come in any order)
getActiveAlerts(table) ==
    {rows \in reorderings(activeRows(table)) :
        \A i, j \in 1..Len(rows) : i < j => ~sortsBefore(rows[j], rows[i])}

\* INSERT INTO alerts (id, type, severity, station_id, message, details):
\* timestamp and acknowledged take their defaults
insertAlert(table, id, severity, timestamp) ==
    Append(table, [id |-> id, severity |-> severity,
                   timestamp |-> timestamp, acknowledged |-> 0])

\* UPDATE alerts SET acknowledged = 1, resolved_at = ... WHERE id = ?
acknowledgeAlert(table, alertId) ==
    [i \in 1..Len(table) |->
        IF table[i].id = alertId THEN [table[i] EXCEPT !.acknowledged = 1] ELSE table[i]]

\* the number of rows with the id
rowsWithId(table, id) == Len(SelectSeq(table, LAMBDA row : row.id = id))

\* ------------------------------------------------------------------------
\* Inputs of the calls
\* ------------------------------------------------------------------------

\* the lists of k elements of S
ListsOf(S, k) == [1..k -> S]

ST001 == <<"S", "T", "0", "0", "1">>

ST002 == <<"S", "T", "0", "0", "2">>

ST012 == <<"S", "T", "0", "1", "2">>

\* a station id whose text after removing 'ST' does not parse as an integer
WC003 == <<"W", "C", "0", "0", "3">>

\* one station studied in detail: every combination of a parseable or
\* unparseable id, a positive, zero or negative target, a coefficient of
\* variation of 0, 12, 20 or 30, low or high downtime, a negative, moderate
\* or high variance
StationRows ==
    [station_id : {ST001, WC003},
     target_cycle_time : {Num(-90), Zero, Num(90)},
     avg_cycle_time : {Num(100)},
     stddev_cycle_time : {Null, Num(12), Num(20), Num(30)},
     total_downtime : {Null, Num(90)},
     variance_percent : {Num(-30), Num(18), Num(25)}]

\* the stations of a line: with or without samples, with distinct variances
\* that reach the same variance score, and unequal downtime shares
LineRows ==
    [station_id : {ST001, ST012, WC003},
     target_cycle_time : {Num(90)},
     avg_cycle_time : {Null, Num(100)},
     stddev_cycle_time : {Null},
     total_downtime : {Num(30), Num(90)},
     variance_percent : {Num(-30), Num(25), Num(30)}]

\* one station per variance percent from -2 to MaxVariance in steps of one
\* half, and one without a variance
SeverityRows ==
    [station_id : {ST001},
     target_cycle_time : {Num(90)},
     avg_cycle_time : {Num(100)},
     stddev_cycle_time : {Null},
     total_downtime : {Null},
     variance_percent : {Fin(n, 2) : n \in -4..(2 * MaxVariance)} \cup {Null}]

ShiftRows ==
    [shift : {"Day", "Night"}, station_id : {ST001}, avg_cycle_time : {Num(100), Num(112), Num(120)}]
    \cup {[shift |-> "Day", station_id |-> ST012, avg_cycle_time |-> Num(100)],
          [shift |-> "Night", station_id |-> ST012, avg_cycle_time |-> Num(120)]}

ST003 == <<"S", "T", "0", "0", "3">>

\* the station ids of a line, in line order (ids are the primary key of the
\* stations table, so a station list holds each id once)
LineIds == <<ST001, ST002, ST003, ST012>>

\* what varies between the stations of a simulated line
SimStationFields ==
    [avgCycleTime : {Num(80), Num(100)}, operatorCount : {Num(1), Num(2)}]

\* the first k stations of the line
SimStationLists(k) ==
    {[i \in 1..k |-> [id |-> LineIds[i],
                      targetCycleTime |-> Num(90),
                      avgCycleTime |-> f[i].avgCycleTime,
                      operatorCount |-> f[i].operatorCount]] :
        f \in [1..k -> SimStationFields]}

\* the changes the panel sends (add_operator with 1 or -1), the other types
\* the simulator handles, and a type it has no case for
ChangeRows ==
    [type : {"add_operator"}, stationId : {ST001, ST002}, value : {Num(-1), Num(1), Num(48)}]
    \cup [type : {"remove_operator"}, stationId : {ST001}, value : {Num(2)}]
    \cup [type : {"change_cycle_time"}, stationId : {ST001}, value : {Num(-10), Num(120)}]
    \cup [type : {"add_station"}, stationId : {ST001}, value : {Num(1)}]

\* the stations of the calls that run side by side: two with samples, which
\* the sort exchanges, and one without
CallStationRows ==
    {[station_id |-> ST012, target_cycle_time |-> Num(90), avg_cycle_time |-> Num(100),
      stddev_cycle_time |-> Null, total_downtime |-> Num(30), variance_percent |-> Num(30)],
     [station_id |-> ST001, target_cycle_time |-> Num(90), avg_cycle_time |-> Num(100),
      stddev_cycle_time |-> Null, total_downtime |-> Num(30), variance_percent |-> Num(25)],
     [station_id |-> ST003, target_cycle_time |-> Num(90), avg_cycle_time |-> Null,
      stddev_cycle_time |-> Null, total_downtime |-> Null, variance_percent |-> Null]}

\* the calls that run side by side: analyzeBottlenecks on a line of up to two
\* different stations, runSimulation on one station with or without an added
\* operator
CallArguments ==
    {[fn |-> "analyzeBottlenecks", args |-> [stationData |-> sd, shiftData |-> <<>>]] :
        sd \in {l \in UNION {ListsOf(CallStationRows, k) : k \in 0..2} :
                   \A i, j \in 1..Len(l) : l[i] = l[j] => i = j}}
    \cup {[fn |-> "runSimulation", args |-> [stations |-> st, changes |-> ch]] :
            st \in {<<[id |-> ST001, targetCycleTime |-> Num(90),
                       avgCycleTime |-> Num(100), operatorCount |-> Num(2)]>>},
            ch \in {<<>>, <<[type |-> "add_operator", stationId |-> ST001,
                             value |-> Num(1)]>>}}

\* the severities given to alerts: the two the query ranks, and another
Severities == {"critical", "warning", "info"}

\* ------------------------------------------------------------------------
\* Natural language query agent
\*
\* The value returned is [intent |-> [action, metrics], sql |-> [template,
\* timeRange]]: template names the SQL text chosen and timeRange is the text
\* put in place of {timeRange}.  The two Date objects of the intent (clock
\* readings) and the explanation text are left out.
\* ------------------------------------------------------------------------

UpperCase ==
    <<"A", "B", "C", "D", "E", "F", "G", "H", "I", "J", "K", "L", "M",
      "N", "O", "P", "Q", "R", "S", "T", "U", "V", "W", "X", "Y", "Z">>

LowerCase ==
    <<"a", "b", "c", "d", "e", "f", "g", "h", "i", "j", "k", "l", "m",
      "n", "o", "p", "q", "r", "s", "t", "u", "v", "w", "x", "y", "z">>

UpperCaseLetters == {UpperCase[i] : i \in 1..26}

\* the letter a regular expression with the i flag compares instead of c
foldCase(c) ==
    IF c \in UpperCaseLetters
    THEN LowerCase[CHOOSE i \in 1..26 : UpperCase[i] = c]
    ELSE c

foldCaseAll(str) == [i \in 1..Len(str) |-> foldCase(str[i])]

\* pat is in str from position i on
occursAt(str, pat, i) ==
    /\ i >= 1
    /\ i + Len(pat) - 1 <= Len(str)
    /\ SubSeq(str, i, i + Len(pat) - 1) = pat

\* str.includes(pat)
includes(str, pat) == \E i \in 1..(Len(str) + 1) : occursAt(str, pat, i)

\* /(a1|a2|..).*(b1|b2|..)/i.test(str), heads the a's and tails the b's: a
\* head, then any characters but line ends, then a tail.  A pattern that is
\* one alternation has the empty text as its only tail.
test(pattern, str) ==
    LET folded == foldCaseAll(str)
    IN  \E a \in pattern.heads, i \in 1..(Len(str) + 1) :
            /\ occursAt(folded, a, i)
            /\ \E b \in pattern.tails, j \in (i + Len(a))..(Len(str) + 1) :
                   /\ occursAt(folded, b, j)
                   /\ \A k \in (i + Len(a))..(j - 1) : folded[k] # "\n"

\* the patterns, in the order of the array; sqlTemplate names the SQL text
QUERY_PATTERNS ==
    <<[heads |-> {<<"w", "h", "i", "c", "h", " ", "s", "t", "a", "t", "i", "o", "n", " ", "h", "u", "r", "t">>, <<"w", "h", "i", "c", "h", " ", "s", "t", "a", "t", "i", "o", "n", " ", "a", "f", "f", "e", "c", "t", "e", "d">>,
                  <<"w", "h", "i", "c", "h", " ", "s", "t", "a", "t", "i", "o", "n", " ", "i", "m", "p", "a", "c", "t", "e", "d">>, <<"w", "h", "i", "c", "h", " ", "s", "t", "a", "t", "i", "o", "n", " ", "c", "a", "u", "s", "e", "d">>},
       tails |-> {<<"o", "u", "t", "p", "u", "t">>, <<"t", "h", "r", "o", "u", "g", "h", "p", "u", "t">>, <<"p", "r", "o", "d", "u", "c", "t", "i", "o", "n">>},
       intent |-> [action |-> "find", metrics |-> <<"throughput">>],
       sqlTemplate |-> "station_variance_top5"],
      [heads |-> {<<"c", "o", "m", "p", "a", "r", "e">>},
       tails |-> {<<"s", "h", "i", "f", "t">>, <<"s", "h", "i", "f", "t", "s">>, <<"d", "a", "y">>, <<"n", "i", "g", "h", "t">>, <<"s", "w", "i", "n", "g">>},
       intent |-> [action |-> "compare", metrics |-> <<"cycle_time", "throughput">>],
       sqlTemplate |-> "by_shift"],
      [heads |-> {<<"t", "r", "e", "n", "d">>, <<"t", "r", "e", "n", "d", "i", "n", "g">>, <<"o", "v", "e", "r", " ", "t", "i", "m", "e">>, <<"h", "i", "s", "t", "o", "r", "y">>},
       tails |-> {<<>>},
       intent |-> [action |-> "trend", metrics |-> <<"cycle_time">>],
       sqlTemplate |-> "by_date"],
      [heads |-> {<<"d", "e", "f", "e", "c", "t">>, <<"q", "u", "a", "l", "i", "t", "y">>, <<"r", "e", "j", "e", "c", "t">>},
       tails |-> {<<>>},
       intent |-> [action |-> "find", metrics |-> <<"defect_rate">>],
       sqlTemplate |-> "defects_by_station"],
      [heads |-> {<<"d", "o", "w", "n", "t", "i", "m", "e">>, <<"d", "o", "w", "n", " ", "t", "i", "m", "e">>, <<"s", "t", "o", "p", "p", "e", "d">>, <<"i", "d", "l", "e">>},
       tails |-> {<<>>},
       intent |-> [action |-> "find", metrics |-> <<"downtime">>],
       sqlTemplate |-> "downtime_by_station"],
      [heads |-> {<<"o", "p", "e", "r", "a", "t", "o", "r">>, <<"w", "o", "r", "k", "e", "r">>, <<"e", "m", "p", "l", "o", "y", "e", "e">>},
       tails |-> {<<>>},
       intent |-> [action |-> "find", metrics |-> <<"operator_performance">>],
       sqlTemplate |-> "by_operator"]>>

\* \s, for the characters a typed query holds
IsSpace(c) == c \in {" ", "\t", "\n"}

RECURSIVE spacesEnd(_, _)
\* the position after the blanks of str that start at i
spacesEnd(str, i) ==
    IF i <= Len(str) /\ IsSpace(str[i]) THEN spacesEnd(str, i + 1) ELSE i

RECURSIVE digitsEnd(_, _)
\* the position after the digits of str that start at i
digitsEnd(str, i) ==
    IF i <= Len(str) /\ IsDigit(str[i]) THEN digitsEnd(str, i + 1) ELSE i

TimeUnits == {<<"d", "a", "y">>, <<"w", "e", "e", "k">>, <<"h", "o", "u", "r">>, <<"m", "o", "n", "t", "h">>}

\* /last\s+(\d+)\s+(day|week|hour|month)s?/i matches str from position i on
lastMatchesAt(str, i) ==
    LET folded == foldCaseAll(str)
        n == spacesEnd(str, i + 4)
        u == spacesEnd(str, digitsEnd(str, n))
    IN  /\ occursAt(folded, <<"l", "a", "s", "t">>, i)
        /\ n > i + 4
        /\ digitsEnd(str, n) > n
        /\ u > digitsEnd(str, n)
        /\ \E unit \in TimeUnits : occursAt(folded, unit, u)

\* the first part of parseNaturalLanguageQuery: the time range of the query
timeRangeOf(str) ==
    LET hits == {i \in 1..Len(str) : lastMatchesAt(str, i)}
    IN  IF hits # {}
        THEN LET i == CHOOSE h \in hits : \A g \in hits : h <= g
                 n == spacesEnd(str, i + 4)
                 u == spacesEnd(str, digitsEnd(str, n))
                 unit == CHOOSE t \in TimeUnits : occursAt(foldCaseAll(str), t, u)
             IN  SubSeq(str, n, digitsEnd(str, n) - 1) \o <<" ">>
                     \o SubSeq(str, u, u + Len(unit) - 1) \o <<"s">>
        ELSE IF includes(str, <<"t", "o", "d", "a", "y">>) THEN <<"1", " ", "d", "a", "y">>
        ELSE IF includes(str, <<"y", "e", "s", "t", "e", "r", "d", "a", "y">>) THEN <<"2", " ", "d", "a", "y", "s">>
        ELSE IF includes(str, <<"t", "h", "i", "s", " ", "w", "e", "e", "k">>) THEN <<"7", " ", "d", "a", "y", "s">>
        ELSE IF includes(str, <<"t", "h", "i", "s", " ", "m", "o", "n", "t", "h">>) THEN <<"3", "0", " ", "d", "a", "y", "s">>
        ELSE <<"7", " ", "d", "a", "y", "s">>

\* the return after the loop: the general query on station variance
defaultQuery(timeRange) ==
    [intent |-> [action |-> "find", metrics |-> <<"cycle_time">>],
     sql |-> [template |-> "station_variance", timeRange |-> timeRange]]

RECURSIVE lastMatch(_, _, _)
\* the loop over QUERY_PATTERNS from entry i on, returning at the end of the
\* array what the last matching pattern gives rather than at the first match
lastMatch(str, timeRange, i) ==
    IF i < 1 THEN defaultQuery(timeRange)
    ELSE IF test(QUERY_PATTERNS[i], str)
         THEN [intent |-> QUERY_PATTERNS[i].intent,
               sql |-> [template |-> QUERY_PATTERNS[i].sqlTemplate, timeRange |-> timeRange]]
         ELSE lastMatch(str, timeRange, i - 1)

\* parseNaturalLanguageQuery with the last matching pattern winning
parseLastMatch(str) == lastMatch(str, timeRangeOf(str), Len(QUERY_PATTERNS))

RECURSIVE matchFrom(_, _, _)
\* for (const pattern of QUERY_PATTERNS), from entry i on: return at the
\* first pattern whose test succeeds
matchFrom(str, timeRange, i) ==
    IF i > Len(QUERY_PATTERNS) THEN defaultQuery(timeRange)
    ELSE IF test(QUERY_PATTERNS[i], str)
         THEN [intent |-> QUERY_PATTERNS[i].intent,
               sql |-> [template |-> QUERY_PATTERNS[i].sqlTemplate, timeRange |-> timeRange]]
         ELSE matchFrom(str, timeRange, i + 1)

parseNaturalLanguageQuery(str) == matchFrom(str, timeRangeOf(str), 1)

\* the words queries are made of
QueryWords ==
    <<<<"w", "h", "i", "c", "h", " ", "s", "t", "a", "t", "i", "o", "n", " ", "h", "u", "r", "t">>, <<"o", "u", "t", "p", "u", "t">>, <<"c", "o", "m", "p", "a", "r", "e">>, <<"s", "h", "i", "f", "t", "s">>, <<"t", "o", "d", "a", "y">>,
      <<"T", "r", "e", "n", "d">>, <<"d", "e", "f", "e", "c", "t">>, <<"d", "o", "w", "n", "t", "i", "m", "e">>, <<"o", "p", "e", "r", "a", "t", "o", "r">>, <<"l", "a", "s", "t", " ", "3", " ", "w", "e", "e", "k", "s">>>>

RECURSIVE joinWords(_)
\* the words of a list, in order, with a blank between two of them
joinWords(words) ==
    IF words = <<>> THEN <<>>
    ELSE IF Len(words) = 1 THEN QueryWords[words[1]]
    ELSE QueryWords[words[1]] \o <<" ">> \o joinWords(Tail(words))

\* the queries of up to MaxWords words
Queries == {joinWords(w) : w \in UNION {[1..k -> 1..Len(QueryWords)] : k \in 0..MaxWords}}

\* ------------------------------------------------------------------------
\* Simulation panel
\*
\* An entry of the changes state is [type, stationId, value]; description,
\* the text shown next to it, is left out.
\* ------------------------------------------------------------------------

\* changes.findIndex(c => c.stationId === stationId && c.type === type), the
\* positions counted from 1 and 0 standing for -1
findIndex(changes, stationId, type) ==
    LET hits == {i \in 1..Len(changes) :
                    changes[i].stationId = stationId /\ changes[i].type = type}
    IN  IF hits = {} THEN 0 ELSE CHOOSE i \in hits : \A j \in hits : i <= j

\* addChange that adds an entry without looking for one of the same pair
addChangeAppending(changes, stationId, type, value) ==
    Append(changes, [type |-> type, stationId |-> stationId, value |-> value])

\* the argument of setChanges in addChange(stationId, type, value)
addChange(changes, stationId, type, value) ==
    LET existingIndex == findIndex(changes, stationId, type)
    IN  IF existingIndex >= 1
        THEN LET updated == [changes EXCEPT ![existingIndex].value = Add(@, value)]
             IN  IF updated[existingIndex].value = Zero
                 THEN SubSeq(updated, 1, existingIndex - 1)
                          \o SubSeq(updated, existingIndex + 1, Len(updated))
                 ELSE updated
        ELSE Append(changes, [type |-> type, stationId |-> stationId, value |-> value])

\* getOperatorChange(stationId)
getOperatorChange(changes, stationId) ==
    LET mine == SelectSeq(changes, LAMBDA c : c.stationId = stationId /\ c.type = "add_operator")
    IN  sumOf([i \in 1..Len(mine) |-> mine[i].value], 1)

\* the stations the panel shows and /api/simulate reads
PanelStations ==
    <<[id |-> ST001, targetCycleTime |-> Num(90), avgCycleTime |-> Num(100), operatorCount |-> Num(2)],
      [id |-> ST002, targetCycleTime |-> Num(90), avgCycleTime |-> Num(80), operatorCount |-> Num(1)]>>

\* the values the two buttons of a station pass to addChange
ButtonValues == {-1, 1}

\* ------------------------------------------------------------------------
\* State
\* ------------------------------------------------------------------------

VARIABLES
    pc,                \* "calling" while the call runs, "returned" after it
    stationData,       \* analyzeBottlenecks: first argument
    shiftData,         \* analyzeBottlenecks: second argument
    analyses,          \* analyzeBottlenecks: the list returned
    input,             \* runSimulation: the argument, as the caller sees it
    modifiedStations,  \* runSimulation: the projected station set
    results,           \* runSimulation: the value returned
    alerts,            \* the alerts table
    clock,             \* CURRENT_TIMESTAMP of the database, in seconds
    response,          \* the value returned by the last operation on alerts
    acknowledgedAlerts, \* the ids of the alerts acknowledgeAlert has updated
    calls,             \* the calls in progress: function, arguments, position, result
    locals,            \* the bindings declared in the function bodies, by activation
    query,             \* parseNaturalLanguageQuery: the argument
    parsed,            \* parseNaturalLanguageQuery: the value returned
    displayed,         \* Dashboard: the alerts state
    requests,          \* Dashboard: the calls of its async functions
    removed,           \* Dashboard: the ids handleAcknowledgeAlert has filtered out
    panelChanges,      \* SimulationPanel: the changes state
    panelResults,      \* SimulationPanel: the results state
    isRunning,         \* SimulationPanel: the isRunning state
    panelRequests,     \* SimulationPanel: the bodies posted to /api/simulate, unanswered
    panelLog           \* SimulationPanel: the calls of addChange and resetChanges, the results set

vars ==
    <<pc, stationData, shiftData, analyses, input, modifiedStations, results,
      alerts, clock, response, acknowledgedAlerts, calls, locals,
      query, parsed, displayed, requests, removed,
      panelChanges, panelResults, isRunning, panelRequests, panelLog>>

analyzerVars == <<stationData, shiftData, analyses>>

simulatorVars == <<input, modifiedStations, results>>

alertVars == <<alerts, clock, response, acknowledgedAlerts>>

callVars == <<calls, locals>>

queryVars == <<query, parsed>>

dashboardVars == <<displayed, requests, removed>>

panelVars == <<panelChanges, panelResults, isRunning, panelRequests, panelLog>>

\* no call is in progress
NoCalls == calls = <<>> /\ locals = <<>>

\* the bindings of an activation before its declarations are reached
NoLocals == [i |-> 0, analyses |-> <<>>, baseline |-> <<>>, modifiedStations |-> <<>>]

\* every call works on one set of bindings, as if analyses, baseline and
\* modifiedStations were declared at module level
sharedFrame(c) == 1

\* the activation that holds the bindings of call c: analyses, baseline and
\* modifiedStations are declared with const inside the function bodies, so
\* each call has its own
frameOf(c) == c

\* no operation on the alerts table has returned yet
NoResponse == [op |-> "none", rows |-> <<>>, changes |-> 0, error |-> FALSE]

\* the alerts table is empty and untouched
AlertsUntouched ==
    /\ alerts = <<>>
    /\ clock = 0
    /\ response = NoResponse
    /\ acknowledgedAlerts = {}

NoResults == [baseline |-> <<>>, projected |-> <<>>]

NoInput == [stations |-> <<>>, changes |-> <<>>]

NoParse == [intent |-> <<>>, sql |-> <<>>]

\* parseNaturalLanguageQuery has not been called
NoQuery == query = <<>> /\ parsed = NoParse

\* the Dashboard component is not mounted
NoDashboard == displayed = <<>> /\ requests = <<>> /\ removed = {}

\* the SimulationPanel component is not mounted
NoPanel ==
    /\ panelChanges = <<>>
    /\ panelResults = NoResults
    /\ isRunning = FALSE
    /\ panelRequests = <<>>
    /\ panelLog = <<>>

\* analyzeBottlenecks is about to run, either on one station of StationRows
\* with any shift data, or on a line of LineRows without shift data, or on
\* one station of SeverityRows
InitAnalyzer ==
    /\ pc = "calling"
    /\ \/ \E s \in StationRows, m \in 0..MaxShifts :
              /\ stationData = <<s>>
              /\ shiftData \in ListsOf(ShiftRows, m)
       \/ \E k \in 0..MaxStations :
              /\ stationData \in ListsOf(LineRows, k)
              /\ shiftData = <<>>
       \/ \E s \in SeverityRows :
              /\ stationData = <<s>>
              /\ shiftData = <<>>
    /\ analyses = <<>>
    /\ input = NoInput
    /\ modifiedStations = <<>>
    /\ results = NoResults
    /\ AlertsUntouched
    /\ NoQuery
    /\ NoDashboard
    /\ NoPanel
    /\ NoCalls

\* runSimulation is about to run on a line and a list of changes
InitSimulator ==
    /\ pc = "calling"
    /\ stationData = <<>>
    /\ shiftData = <<>>
    /\ analyses = <<>>
    /\ \E k \in 0..MaxSimStations, m \in 0..MaxChanges :
           \E st \in SimStationLists(k), ch \in ListsOf(ChangeRows, m) :
               input = [stations |-> st, changes |-> ch]
    /\ modifiedStations = <<>>
    /\ results = NoResults
    /\ AlertsUntouched
    /\ NoQuery
    /\ NoDashboard
    /\ NoPanel
    /\ NoCalls

\* the call of analyzeBottlenecks, from entry to return
AnalyzeBottlenecks ==
    /\ pc = "calling"
    /\ \E out \in analyzeBottlenecks(stationData, shiftData) : analyses' = out
    /\ pc' = "returned"
    /\ UNCHANGED <<stationData, shiftData, simulatorVars, alertVars, callVars, queryVars, dashboardVars, panelVars>>

\* the call of runSimulation, from entry to return
RunSimulation ==
    /\ pc = "calling"
    /\ modifiedStations' = modifiedStationsOf(input.stations, input.changes)
    /\ results' = runSimulation(input)
    /\ input' = [input EXCEPT !.stations = stationsAfter(input.stations, input.changes)]
    /\ pc' = "returned"
    /\ UNCHANGED <<analyzerVars, alertVars, callVars, queryVars, dashboardVars, panelVars>>

\* the database as initializeSchema creates it: no alert yet
InitAlerts ==
    /\ pc = "idle"
    /\ stationData = <<>>
    /\ shiftData = <<>>
    /\ analyses = <<>>
    /\ input = NoInput
    /\ modifiedStations = <<>>
    /\ results = NoResults
    /\ AlertsUntouched
    /\ NoQuery
    /\ NoDashboard
    /\ NoPanel
    /\ NoCalls

\* insertAlert(alert): a second row with the id of an existing one violates
\* the primary key, the statement throws and the table stays as it is.  Ids
\* are opaque: the k-th distinct id inserted is called k.
InsertAlert ==
    \E id \in 1..MaxAlerts, severity \in Severities :
        /\ id <= Len(alerts) + 1
        /\ IF rowsWithId(alerts, id) > 0
           THEN /\ alerts' = alerts
                /\ response' = [op |-> "insertAlert", rows |-> <<>>,
                                 changes |-> 0, error |-> TRUE]
           ELSE /\ alerts' = insertAlert(alerts, id, severity, clock)
                /\ response' = [op |-> "insertAlert", rows |-> <<>>,
                                 changes |-> 1, error |-> FALSE]
        /\ UNCHANGED <<pc, analyzerVars, simulatorVars, callVars, queryVars, dashboardVars, panelVars, clock, acknowledgedAlerts>>

\* acknowledgeAlert(alertId), for the id of an alert or of none
AcknowledgeAlert ==
    \E alertId \in 1..MaxAlerts :
        /\ alerts' = acknowledgeAlert(alerts, alertId)
        /\ acknowledgedAlerts' =
               IF rowsWithId(alerts, alertId) > 0
               THEN acknowledgedAlerts \cup {alertId} ELSE acknowledgedAlerts
        /\ response' = [op |-> "acknowledgeAlert", rows |-> <<>>,
                         changes |-> rowsWithId(alerts, alertId), error |-> FALSE]
        /\ UNCHANGED <<pc, analyzerVars, simulatorVars, callVars, queryVars, dashboardVars, panelVars, clock>>

\* getActiveAlerts()
GetActiveAlerts ==
    /\ \E rows \in getActiveAlerts(alerts) :
           response' = [op |-> "getActiveAlerts", rows |-> rows,
                        changes |-> 0, error |-> FALSE]
    /\ UNCHANGED <<pc, analyzerVars, simulatorVars, callVars, queryVars, dashboardVars, panelVars, alerts, clock,
                   acknowledgedAlerts>>

\* a second passes
Tick ==
    /\ clock < MaxClock
    /\ clock' = clock + 1
    /\ UNCHANGED <<pc, analyzerVars, simulatorVars, callVars, queryVars, dashboardVars, panelVars, alerts, response,
                   acknowledgedAlerts>>

NextAlerts == InsertAlert \/ AcknowledgeAlert \/ GetActiveAlerts \/ Tick

\* any sequence of operations on the alerts table
SpecAlerts == InitAlerts /\ [][NextAlerts]_vars

\* MaxCalls calls have been made and none has run yet
InitConcurrent ==
    /\ pc = "idle"
    /\ stationData = <<>>
    /\ shiftData = <<>>
    /\ analyses = <<>>
    /\ input = NoInput
    /\ modifiedStations = <<>>
    /\ results = NoResults
    /\ AlertsUntouched
    /\ NoQuery
    /\ NoDashboard
    /\ NoPanel
    /\ \E made \in [1..MaxCalls -> CallArguments] :
           calls = [c \in 1..MaxCalls |->
                       [fn |-> made[c].fn, args |-> made[c].args,
                        pc |-> "called", result |-> <<>>]]
    /\ locals = [c \in 1..MaxCalls |-> NoLocals]

\* what no step of a call touches
CallFrame == <<pc, analyzerVars, simulatorVars, alertVars, queryVars, dashboardVars, panelVars>>

\* analyzeBottlenecks, entry: const analyses = [] and the start of the loop
AnalyzeEnter(c) ==
    /\ calls[c].fn = "analyzeBottlenecks"
    /\ calls[c].pc = "called"
    /\ locals' = [locals EXCEPT ![frameOf(c)].analyses = <<>>, ![frameOf(c)].i = 1]
    /\ calls' = [calls EXCEPT ![c].pc = "loop"]
    /\ UNCHANGED CallFrame

\* analyzeBottlenecks, one iteration of the loop over stationData
AnalyzeStation(c) ==
    LET mine == locals[frameOf(c)]
        stations == calls[c].args.stationData
    IN  /\ calls[c].fn = "analyzeBottlenecks"
        /\ calls[c].pc = "loop"
        /\ mine.i <= Len(stations)
        /\ locals' =
               [locals EXCEPT
                   ![frameOf(c)].analyses =
                       IF Truthy(stations[mine.i].avg_cycle_time)
                       THEN Append(mine.analyses,
                                   analysisOf(stations[mine.i], stations,
                                              calls[c].args.shiftData))
                       ELSE mine.analyses,
                   ![frameOf(c)].i = mine.i + 1]
        /\ UNCHANGED <<calls, CallFrame>>

\* analyzeBottlenecks, after the loop: the sort and the return
AnalyzeReturn(c) ==
    LET mine == locals[frameOf(c)]
    IN  /\ calls[c].fn = "analyzeBottlenecks"
        /\ calls[c].pc = "loop"
        /\ mine.i > Len(calls[c].args.stationData)
        /\ \E out \in sortOutcomes(mine.analyses) :
               calls' = [calls EXCEPT ![c].pc = "returned", ![c].result = out]
        /\ UNCHANGED <<locals, CallFrame>>

\* runSimulation: const baseline = calculateLineMetrics(input.stations)
SimulateBaseline(c) ==
    /\ calls[c].fn = "runSimulation"
    /\ calls[c].pc = "called"
    /\ locals' = [locals EXCEPT
                      ![frameOf(c)].baseline = calculateLineMetrics(calls[c].args.stations)]
    /\ calls' = [calls EXCEPT ![c].pc = "baseline"]
    /\ UNCHANGED CallFrame

\* runSimulation: const modifiedStations = input.stations.map(...)
SimulateMap(c) ==
    /\ calls[c].fn = "runSimulation"
    /\ calls[c].pc = "baseline"
    /\ locals' = [locals EXCEPT
                      ![frameOf(c)].modifiedStations =
                          modifiedStationsOf(calls[c].args.stations, calls[c].args.changes)]
    /\ calls' = [calls EXCEPT ![c].pc = "mapped"]
    /\ UNCHANGED CallFrame

\* runSimulation: const projected = calculateLineMetrics(modifiedStations) and
\* the return
SimulateReturn(c) ==
    LET mine == locals[frameOf(c)]
    IN  /\ calls[c].fn = "runSimulation"
        /\ calls[c].pc = "mapped"
        /\ calls' = [calls EXCEPT
                         ![c].pc = "returned",
                         ![c].result =
                             [baseline |-> mine.baseline,
                              projected |-> calculateLineMetrics(mine.modifiedStations)]]
        /\ UNCHANGED <<locals, CallFrame>>

NextConcurrent ==
    \E c \in 1..MaxCalls :
        \/ AnalyzeEnter(c)
        \/ AnalyzeStation(c)
        \/ AnalyzeReturn(c)
        \/ SimulateBaseline(c)
        \/ SimulateMap(c)
        \/ SimulateReturn(c)

\* the calls run side by side, their steps in any order
SpecConcurrent == InitConcurrent /\ [][NextConcurrent]_vars

\* one call of the analyzer on any of its inputs
SpecAnalyzer == InitAnalyzer /\ [][AnalyzeBottlenecks]_vars

\* one call of the simulator on any of its inputs
SpecSimulator == InitSimulator /\ [][RunSimulation]_vars

\* parseNaturalLanguageQuery is about to run on a query
InitQuery ==
    /\ pc = "calling"
    /\ stationData = <<>>
    /\ shiftData = <<>>
    /\ analyses = <<>>
    /\ input = NoInput
    /\ modifiedStations = <<>>
    /\ results = NoResults
    /\ AlertsUntouched
    /\ NoDashboard
    /\ NoPanel
    /\ NoCalls
    /\ query \in Queries
    /\ parsed = NoParse

\* the call of parseNaturalLanguageQuery, from entry to return
ParseNaturalLanguageQuery ==
    /\ pc = "calling"
    /\ parsed' = parseNaturalLanguageQuery(query)
    /\ pc' = "returned"
    /\ UNCHANGED <<query, analyzerVars, simulatorVars, alertVars, callVars,
                   dashboardVars, panelVars>>

SpecQuery == InitQuery /\ [][ParseNaturalLanguageQuery]_vars

\* ------------------------------------------------------------------------
\* Dashboard: the alert list, its refresh and the acknowledgement of alerts
\*
\* displayed is the alerts state of the component.  requests holds one
\* record per call of an async function of the component: fn, the alertId
\* argument, alerts as the function body sees it (the value of the render
\* that created the function), stage ("fetching" until the server has
\* handled the request, "answered" until the function resumes after its
\* await, then "done") and the rows of the response.  Of the four fetches of
\* fetchDashboardData only /api/alerts is kept.
\* ------------------------------------------------------------------------

RECURSIVE alertsInserted(_)
\* the table after insertAlert for alerts 1, 2, .. with the severities given
alertsInserted(severities) ==
    IF severities = <<>> THEN <<>>
    ELSE insertAlert(alertsInserted(SubSeq(severities, 1, Len(severities) - 1)),
                     Len(severities), severities[Len(severities)], 0)

\* the page is mounted: useState([]) for alerts, no fetch issued yet, and
\* the alerts table holds up to MaxAlerts unacknowledged alerts
InitDashboard ==
    /\ pc = "idle"
    /\ stationData = <<>>
    /\ shiftData = <<>>
    /\ analyses = <<>>
    /\ input = NoInput
    /\ modifiedStations = <<>>
    /\ results = NoResults
    /\ \E n \in 0..MaxAlerts : \E severities \in ListsOf(Severities, n) :
           alerts = alertsInserted(severities)
    /\ clock = 0
    /\ response = NoResponse
    /\ acknowledgedAlerts = {}
    /\ NoQuery
    /\ NoDashboard
    /\ NoPanel
    /\ NoCalls

\* what no step of the dashboard touches
DashboardFrame ==
    <<pc, analyzerVars, simulatorVars, callVars, queryVars, panelVars, clock, response>>

\* fetchDashboardData() is called, by the effect on mount or by the interval
\* timer, and runs up to its first await: the GET requests are sent
FetchDashboardData ==
    /\ Len(requests) < MaxRequests
    /\ requests' = Append(requests, [fn |-> "fetchDashboardData", alertId |-> 0,
                                     alerts |-> <<>>, stage |-> "fetching", rows |-> <<>>])
    /\ UNCHANGED <<displayed, removed, alerts, acknowledgedAlerts, DashboardFrame>>

\* GET /api/alerts is handled: the response holds getActiveAlerts()
AlertsGET(r) ==
    /\ requests[r].fn = "fetchDashboardData"
    /\ requests[r].stage = "fetching"
    /\ \E rows \in getActiveAlerts(alerts) :
           requests' = [requests EXCEPT ![r].stage = "answered", ![r].rows = rows]
    /\ UNCHANGED <<displayed, removed, alerts, acknowledgedAlerts, DashboardFrame>>

\* fetchDashboardData resumes with the responses: setAlerts(alertsData)
FetchDashboardDataResume(r) ==
    /\ requests[r].fn = "fetchDashboardData"
    /\ requests[r].stage = "answered"
    /\ displayed' = requests[r].rows
    /\ requests' = [requests EXCEPT ![r].stage = "done"]
    /\ UNCHANGED <<removed, alerts, acknowledgedAlerts, DashboardFrame>>

\* the acknowledge button of a displayed alert is clicked:
\* handleAcknowledgeAlert(alertId) of the current render is called and runs
\* up to its await, the POST request is sent
HandleAcknowledgeAlert(i) ==
    /\ Len(requests) < MaxRequests
    /\ i \in 1..Len(displayed)
    /\ requests' = Append(requests, [fn |-> "handleAcknowledgeAlert",
                                     alertId |-> displayed[i].id,
                                     alerts |-> displayed,
                                     stage |-> "fetching", rows |-> <<>>])
    /\ UNCHANGED <<displayed, removed, alerts, acknowledgedAlerts, DashboardFrame>>

\* POST /api/alerts/[id]/acknowledge is handled: acknowledgeAlert(params.id)
AcknowledgePOST(r) ==
    /\ requests[r].fn = "handleAcknowledgeAlert"
    /\ requests[r].stage = "fetching"
    /\ alerts' = acknowledgeAlert(alerts, requests[r].alertId)
    /\ acknowledgedAlerts' =
           IF rowsWithId(alerts, requests[r].alertId) > 0
           THEN acknowledgedAlerts \cup {requests[r].alertId} ELSE acknowledgedAlerts
    /\ requests' = [requests EXCEPT ![r].stage = "answered"]
    /\ UNCHANGED <<displayed, removed, DashboardFrame>>

\* alerts.filter(a => a.id !== alertId): alerts is the constant of the render
\* whose handleAcknowledgeAlert was called, not the state at this moment
filterAlerts(request) ==
    SelectSeq(request.alerts, LAMBDA a : a.id # request.alertId)

\* handleAcknowledgeAlert resumes after the POST: setAlerts(alerts.filter(..))
HandleAcknowledgeAlertResume(r) ==
    /\ requests[r].fn = "handleAcknowledgeAlert"
    /\ requests[r].stage = "answered"
    /\ displayed' = filterAlerts(requests[r])
    /\ removed' = removed \cup {requests[r].alertId}
    /\ requests' = [requests EXCEPT ![r].stage = "done"]
    /\ UNCHANGED <<alerts, acknowledgedAlerts, DashboardFrame>>

NextDashboard ==
    \/ FetchDashboardData
    \/ \E i \in 1..MaxAlerts : HandleAcknowledgeAlert(i)
    \/ \E r \in 1..Len(requests) :
           \/ AlertsGET(r)
           \/ FetchDashboardDataResume(r)
           \/ AcknowledgePOST(r)
           \/ HandleAcknowledgeAlertResume(r)

\* any interleaving of refreshes and acknowledgements
SpecDashboard == InitDashboard /\ [][NextDashboard]_vars

\* ------------------------------------------------------------------------
\* SimulationPanel: the handlers of its buttons.  pc names the handler that
\* ran last; panelLog records, in order, the calls of addChange and
\* resetChanges and the arrivals of results.
\* ------------------------------------------------------------------------

\* the panel is mounted: useState([]) for changes, useState(null) for results
InitPanel ==
    /\ pc = "idle"
    /\ stationData = <<>>
    /\ shiftData = <<>>
    /\ analyses = <<>>
    /\ input = NoInput
    /\ modifiedStations = <<>>
    /\ results = NoResults
    /\ AlertsUntouched
    /\ NoQuery
    /\ NoDashboard
    /\ NoCalls
    /\ NoPanel

\* what no handler of the panel touches
PanelFrame == <<analyzerVars, simulatorVars, alertVars, callVars, queryVars, dashboardVars>>

\* a click on the minus or the plus button of a station:
\* addChange(station.stationId, 'add_operator', -1 or 1)
AddChange ==
    \E i \in 1..Len(PanelStations), value \in ButtonValues :
        /\ Len(panelLog) < MaxPanelOps
        /\ panelChanges' = addChange(panelChanges, PanelStations[i].id, "add_operator", Num(value))
        /\ panelResults' = NoResults
        /\ panelLog' = Append(panelLog, [op |-> "addChange", stationId |-> PanelStations[i].id,
                                         type |-> "add_operator", value |-> value])
        /\ pc' = "addChange"
        /\ UNCHANGED <<isRunning, panelRequests, PanelFrame>>

\* a click on Reset, enabled while there are changes: resetChanges()
ResetChanges ==
    /\ panelChanges # <<>>
    /\ Len(panelLog) < MaxPanelOps
    /\ panelChanges' = <<>>
    /\ panelResults' = NoResults
    /\ panelLog' = Append(panelLog, [op |-> "resetChanges", stationId |-> <<>>,
                                     type |-> "", value |-> 0])
    /\ pc' = "resetChanges"
    /\ UNCHANGED <<isRunning, panelRequests, PanelFrame>>

\* a click on Run Simulation, enabled while there are changes and no run is
\* in progress: runSimulation() up to its await, the changes are posted
PanelRunSimulation ==
    /\ panelChanges # <<>>
    /\ ~isRunning
    /\ isRunning' = TRUE
    /\ panelRequests' = Append(panelRequests, panelChanges)
    /\ pc' = "runSimulation"
    /\ UNCHANGED <<panelChanges, panelResults, panelLog, PanelFrame>>

\* POST /api/simulate has answered with runSimulation on the stations and
\* the changes posted; runSimulation() of the panel resumes: setResults(data)
PanelRunSimulationResume ==
    /\ panelRequests # <<>>
    /\ Len(panelLog) < MaxPanelOps
    /\ panelResults' = runSimulation([stations |-> PanelStations, changes |-> Head(panelRequests)])
    /\ isRunning' = FALSE
    /\ panelRequests' = Tail(panelRequests)
    /\ panelLog' = Append(panelLog, [op |-> "setResults", stationId |-> <<>>,
                                     type |-> "", value |-> 0])
    /\ pc' = "setResults"
    /\ UNCHANGED <<panelChanges, PanelFrame>>

NextPanel == AddChange \/ ResetChanges \/ PanelRunSimulation \/ PanelRunSimulationResume

\* any sequence of clicks on the buttons of the panel
SpecPanel == InitPanel /\ [][NextPanel]_vars

\* ------------------------------------------------------------------------
\* Properties
\* ------------------------------------------------------------------------

\* the findings returned by the call of analyzeBottlenecks
Findings == IF pc = "returned" THEN {analyses[i] : i \in 1..Len(analyses)} ELSE {}

\* the two SimulationResults returned by the call of runSimulation
SimulationResults ==
    IF pc = "returned" /\ results # NoResults
    THEN {results.baseline, results.projected} ELSE {}

\* C1: every finding returned by analyzeBottlenecks has an integer
\* impactScore with 0 <= impactScore <= 100.
C1_ImpactScoreInRange ==
    \A f \in Findings :
        /\ IsInteger(f.impactScore)
        /\ Ge(f.impactScore, Zero)
        /\ Le(f.impactScore, Num(100))

\* C2: within one finding, no two recommendations have the same id.
C2_RecommendationIdsUnique ==
    \A f \in Findings :
        \A a, b \in 1..Len(f.recommendations) :
            a # b => f.recommendations[a].id # f.recommendations[b].id

\* C3: every station of the projected station set has operatorCount >= 1.
\* (The change lists of the model are closed under prefixes, so the set after
\* each applied change is the projected set of some call.)
C3_OperatorCountAtLeastOne ==
    pc = "returned" =>
        \A i \in 1..Len(modifiedStations) : Ge(modifiedStations[i].operatorCount, Num(1))

\* C4: a station whose target cycle time is zero or negative contributes no
\* finding, and no finding carries a NaN or infinite percentage.
C4_NonPositiveTargetSkipped ==
    \A f \in Findings :
        /\ Gt(f.targetCycleTime, Zero)
        /\ IsFinite(f.variancePercent)
        /\ \A i \in 1..Len(f.rootCauses) :
               f.rootCauses[i].description.percent \in {Null}
               \/ IsFinite(f.rootCauses[i].description.percent)

\* C5: runSimulation on an empty station list returns bottleneckStation =
\* null and finite throughputPerHour, avgCycleTime, lineEfficiency and
\* waitTimeTotal, in baseline and projected.
C5_EmptyLineDefinedResult ==
    input.stations = <<>> =>
        \A r \in SimulationResults :
            /\ r.bottleneckStation = NoStation
            /\ IsFinite(r.throughputPerHour)
            /\ IsFinite(r.avgCycleTime)
            /\ IsFinite(r.lineEfficiency)
            /\ IsFinite(r.waitTimeTotal)

\* the change types runSimulation has a case for
HandledChangeTypes == {"add_operator", "remove_operator", "change_cycle_time"}

\* C6: runSimulation raises an error when a change has a type other than
\* add_operator, remove_operator or change_cycle_time: no call whose change
\* list holds such a change returns a result.
C6_UnknownChangeTypeRaises ==
    pc = "returned" =>
        \A j \in 1..Len(input.changes) : input.changes[j].type \in HandledChangeTypes

\* the station id has no numeric suffix parseInt can read
Unparseable(stationId) == IsNaN(parseInt(RemoveFirst(stationId, <<"S", "T">>)))

\* C7: a station id with no parseable numeric suffix is scored with suffix 0
\* (position sub-score 20): its finding has an integer impactScore and an
\* integer frequency, never NaN.
C7_UnparseableIdScoresAsZero ==
    \A f \in Findings :
        Unparseable(f.stationId) =>
            /\ IsInteger(f.impactScore)
            /\ IsInteger(f.frequency)
            /\ \E i \in 1..Len(stationData) :
                   /\ stationData[i].station_id = f.stationId
                   /\ f.impactScore =
                          MathRound(Add(Add(Add(varianceScore(stationData[i]),
                                                consistencyScore(stationData[i])),
                                            Num(20)),
                                        downtimeScore(stationData[i], stationData)))

\* C8: in baseline and projected, every station's utilization lies in [0,1].
C8_UtilizationInUnitInterval ==
    \A r \in SimulationResults :
        \A id \in DOMAIN r.utilizationByStation :
            /\ Ge(r.utilizationByStation[id], Zero)
            /\ Le(r.utilizationByStation[id], Num(1))

\* the findings of list whose impactScore is score, in list order
WithImpact(list, score) == SelectSeq(list, LAMBDA f : f.impactScore = score)

\* C9: the list returned by analyzeBottlenecks is sorted by impactScore in
\* descending order, and findings with equal impactScore keep the relative
\* order of their stations in the input.
C9_SortedByImpactDescending ==
    pc = "returned" =>
        /\ \A i, j \in 1..Len(analyses) :
               i < j => Ge(analyses[i].impactScore, analyses[j].impactScore)
        /\ \A f \in Findings :
               WithImpact(analyses, f.impactScore)
                   = WithImpact(analysesOf(stationData, shiftData, 1), f.impactScore)

\* the fixed maximum of the confidence of a root cause, by rule
ConfidenceCap(cause) ==
    IF cause.type = "shift" THEN Fin(9, 10)
    ELSE IF cause.type = "operator" THEN Fin(85, 100)
    ELSE IF cause.description.text
                = "Consistently slow performance suggests equipment limitations"
         THEN Fin(75, 100)
    ELSE Fin(8, 10)

\* C10: every root cause of every finding has a confidence in [0,1] that does
\* not exceed the maximum of its rule: 0.9 shift, 0.85 operator, 0.75
\* consistent slowness, 0.8 downtime.
C10_ConfidenceBounded ==
    \A f \in Findings :
        \A i \in 1..Len(f.rootCauses) :
            /\ Ge(f.rootCauses[i].confidence, Zero)
            /\ Le(f.rootCauses[i].confidence, Num(1))
            /\ Le(f.rootCauses[i].confidence, ConfidenceCap(f.rootCauses[i]))

\* C10 witness: a finding with a shift cause and an operator cause whose
\* uncapped ratios (22.2/20 and 30/25) exceed 1, both held at their maxima,
\* next to a downtime cause
C10_Witness ==
    \E f \in Findings :
        /\ Len(f.rootCauses) = 3
        /\ f.rootCauses[1].type = "shift"
        /\ f.rootCauses[1].confidence = Fin(9, 10)
        /\ f.rootCauses[2].type = "operator"
        /\ f.rootCauses[2].confidence = Fin(85, 100)
        /\ f.rootCauses[2].evidence[1] = Num(30)
        /\ f.rootCauses[3].type = "equipment"
        /\ f.rootCauses[3].confidence = Fin(8, 10)

\* C11: a station whose average cycle time is null has no finding in the list
\* analyzeBottlenecks returns, and the findings can be matched one to one with
\* input stations that have an average: each finding carries the id, average,
\* target and variance of its own station.
C11_NullAverageNeverReported ==
    pc = "returned" =>
        /\ \A f \in Findings : f.avgCycleTime # Null
        /\ \A i \in 1..Len(stationData) :
               (/\ stationData[i].avg_cycle_time = Null
                /\ \A j \in 1..Len(stationData) :
                       stationData[j].station_id = stationData[i].station_id
                           => stationData[j].avg_cycle_time = Null)
               => \A f \in Findings : f.stationId # stationData[i].station_id
        /\ \E m \in [1..Len(analyses) -> 1..Len(stationData)] :
               /\ \A a, b \in 1..Len(analyses) : m[a] = m[b] => a = b
               /\ \A a \in 1..Len(analyses) :
                      /\ stationData[m[a]].avg_cycle_time # Null
                      /\ analyses[a].stationId = stationData[m[a]].station_id
                      /\ analyses[a].avgCycleTime = stationData[m[a]].avg_cycle_time
                      /\ analyses[a].targetCycleTime = stationData[m[a]].target_cycle_time
                      /\ analyses[a].variancePercent
                             = OrZero(stationData[m[a]].variance_percent)

\* C11 witness: a line of two stations, the first without an average, returns
\* one finding, that of the second station
C11_Witness ==
    /\ pc = "returned"
    /\ Len(stationData) = 2
    /\ stationData[1].avg_cycle_time = Null
    /\ stationData[2].avg_cycle_time # Null
    /\ stationData[1].station_id # stationData[2].station_id
    /\ Len(analyses) = 1
    /\ analyses[1].stationId = stationData[2].station_id

\* C12: the severity of a finding is decided by its variance percent v alone:
\* critical iff v > 20, high iff 10 < v <= 20, medium iff 5 < v <= 10, low
\* iff v <= 5; so exactly 20, 10 and 5 grade as high, medium and low.
C12_SeverityBuckets ==
    \A f \in Findings :
        LET v == f.variancePercent
        IN  /\ f.severity = "critical" <=> Gt(v, Num(20))
            /\ f.severity = "high" <=> (Gt(v, Num(10)) /\ Le(v, Num(20)))
            /\ f.severity = "medium" <=> (Gt(v, Num(5)) /\ Le(v, Num(10)))
            /\ f.severity = "low" <=> Le(v, Num(5))

\* C12 witness: a station exactly 20 percent over target is graded high
C12_Witness ==
    \E f \in Findings : f.variancePercent = Num(20) /\ f.severity = "high"

\* C13: on every station list, runSimulation with an empty change list
\* returns a projected result with the same value as the baseline result in
\* every field: throughputPerHour, avgCycleTime, lineEfficiency,
\* bottleneckStation, waitTimeTotal and each entry of utilizationByStation.
\* (Values are compared as values: the NaN average of an empty line is the
\* same value in both results.)
C13_NoChangeProjectsBaseline ==
    (pc = "returned" /\ results # NoResults /\ input.changes = <<>>) =>
        /\ results.projected.throughputPerHour = results.baseline.throughputPerHour
        /\ results.projected.avgCycleTime = results.baseline.avgCycleTime
        /\ results.projected.lineEfficiency = results.baseline.lineEfficiency
        /\ results.projected.bottleneckStation = results.baseline.bottleneckStation
        /\ results.projected.waitTimeTotal = results.baseline.waitTimeTotal
        /\ DOMAIN results.projected.utilizationByStation
               = DOMAIN results.baseline.utilizationByStation
        /\ \A id \in DOMAIN results.baseline.utilizationByStation :
               results.projected.utilizationByStation[id]
                   = results.baseline.utilizationByStation[id]

\* C13 witness: a line of two stations simulated without any change, whose
\* bottleneck is the second station
C13_Witness ==
    /\ pc = "returned"
    /\ input.changes = <<>>
    /\ Len(input.stations) = 2
    /\ results.baseline.bottleneckStation = ST002
    /\ results.baseline.throughputPerHour = Num(36)
    /\ results.projected = results.baseline

\* C14: the call of runSimulation leaves every station object of the caller
\* as it was (same operatorCount, avgCycleTime and targetCycleTime), whatever
\* the change list, and the baseline it returns is the metrics of the input
\* stations, whatever the change list.
C14_InputStationsNotMutated ==
    [][/\ input'.stations = input.stations
       /\ results' # NoResults
              => results'.baseline = calculateLineMetrics(input.stations)]_vars

\* C14 witness: after a call that added an operator to the first station, the
\* projected copy has 3 operators and the caller's station still has 2
C14_Witness ==
    /\ pc = "returned"
    /\ Len(input.stations) >= 1
    /\ input.changes = <<[type |-> "add_operator", stationId |-> ST001, value |-> Num(1)]>>
    /\ input.stations[1].operatorCount = Num(2)
    /\ modifiedStations[1].operatorCount = Num(3)
    /\ modifiedStations[1].avgCycleTime # input.stations[1].avgCycleTime

\* the changes of the call that target station a of the input, in list order
ChangesFor(a) == SelectSeq(input.changes, LAMBDA c : c.stationId = input.stations[a].id)

\* C16: when station A (average 100, target 90, 2 operators) is the only
\* station at the greatest cycle time, every other station is at or below A's
\* new cycle time, and the only change is add_operator(A, +1), then A is
\* projected with 3 operators and a cycle time of 100 * (1 - 0.15 / sqrt(3)),
\* between 91 and 92, baseline throughput is floor(3600 / 100) = 36 and
\* projected throughput is strictly greater.
C16_AddOperatorRaisesThroughput ==
    pc = "returned" =>
        \A a \in 1..Len(input.stations) :
            LET A == input.stations[a]
                newCycleTime ==
                    Mul(Num(100), Sub(Num(1), Div(Fin(15, 100), MathSqrt(Num(3)))))
            IN  (/\ A.avgCycleTime = Num(100)
                 /\ A.targetCycleTime = Num(90)
                 /\ A.operatorCount = Num(2)
                 /\ input.changes
                        = <<[type |-> "add_operator", stationId |-> A.id, value |-> Num(1)]>>
                 /\ \A b \in 1..Len(input.stations) :
                        b # a => Le(input.stations[b].avgCycleTime, newCycleTime))
                => /\ modifiedStations[a].operatorCount = Num(3)
                   /\ modifiedStations[a].avgCycleTime = newCycleTime
                   /\ Gt(modifiedStations[a].avgCycleTime, Num(91))
                   /\ Lt(modifiedStations[a].avgCycleTime, Num(92))
                   /\ results.baseline.throughputPerHour = Num(36)
                   /\ Gt(results.projected.throughputPerHour,
                         results.baseline.throughputPerHour)

\* C16 witness: the second station of a line is A, the first runs at 80 s, and
\* one operator is added to A: throughput goes from 36 to 39
C16_Witness ==
    /\ pc = "returned"
    /\ Len(input.stations) = 2
    /\ input.stations[1].avgCycleTime = Num(80)
    /\ input.stations[2].avgCycleTime = Num(100)
    /\ input.stations[2].operatorCount = Num(2)
    /\ input.changes = <<[type |-> "add_operator", stationId |-> ST002, value |-> Num(1)]>>
    /\ results.baseline.bottleneckStation = ST002
    /\ results.baseline.throughputPerHour = Num(36)
    /\ results.projected.throughputPerHour = Num(39)

\* the coefficient of variation of a station whose stddev_cycle_time input is
\* read as the variance of its cycle time: sqrt(variance) / avg * 100
cvOfVariance(station) ==
    IF Truthy(station.avg_cycle_time)
    THEN Mul(Div(MathSqrt(OrZero(station.stddev_cycle_time)), station.avg_cycle_time),
             Num(100))
    ELSE Zero

\* the operator causes of a finding
OperatorCausesOf(f) == SelectSeq(f.rootCauses, LAMBDA c : c.type = "operator")

\* C18: the analyzer works with cv = sqrt(variance) / avg * 100, variance being
\* the station's variance input (0 when absent): a finding has an operator
\* cause iff cv > 15, its confidence is min(0.85, cv / 25), and the
\* consistency part of the impact score is min(20, cv).
C18_CvIsRootOfVariance ==
    \A f \in Findings :
        \A i \in 1..Len(stationData) :
            LET station == stationData[i]
                cv == cvOfVariance(station)
            IN  (/\ Truthy(station.avg_cycle_time)
                 /\ f.stationId = station.station_id
                 /\ f.variancePercent = OrZero(station.variance_percent)
                 /\ f.targetCycleTime = station.target_cycle_time)
                => /\ Len(OperatorCausesOf(f)) = (IF Gt(cv, Num(15)) THEN 1 ELSE 0)
                   /\ \A j \in 1..Len(OperatorCausesOf(f)) :
                          OperatorCausesOf(f)[j].confidence
                              = MathMin(Fin(85, 100), Div(cv, Num(25)))
                   /\ f.impactScore
                          = MathRound(Add(Add(Add(varianceScore(station),
                                                  MathMin(Num(20), cv)),
                                              positionScore(station)),
                                          downtimeScore(station, stationData)))

\* the sum of the values of the changes from change i on
RECURSIVE SumOfValues(_, _)
SumOfValues(changes, i) ==
    IF i > Len(changes) THEN Zero ELSE Add(changes[i].value, SumOfValues(changes, i + 1))

\* C19: when the changes that target a station are all add_operator, with
\* values n1..nk in list order, the projected station has the original
\* operatorCount plus n1 + ... + nk operators and the cycle time
\* baselineAvg * (1 - 0.15 * nk / sqrt(final operatorCount)): it depends on
\* the original average and the last value only, earlier changes do not
\* compound into it.
C19_AddOperatorsAccumulate ==
    pc = "returned" =>
        \A a \in 1..Len(input.stations) :
            LET sc == ChangesFor(a)
                finalCount == Add(input.stations[a].operatorCount, SumOfValues(sc, 1))
            IN  (Len(sc) >= 1 /\ \A j \in 1..Len(sc) : sc[j].type = "add_operator")
                => /\ modifiedStations[a].operatorCount = finalCount
                   /\ modifiedStations[a].avgCycleTime
                          = Mul(input.stations[a].avgCycleTime,
                                Sub(Num(1), Div(Mul(Fin(15, 100), sc[Len(sc)].value),
                                                MathSqrt(finalCount))))

\* C19 witness: two operators are added one after the other to a station of 2
\* operators running at 100 s: 4 operators and 100 * (1 - 0.15 / 2) = 92.5 s
C19_Witness ==
    /\ pc = "returned"
    /\ Len(input.stations) >= 1
    /\ input.stations[1].operatorCount = Num(2)
    /\ input.stations[1].avgCycleTime = Num(100)
    /\ input.changes = <<[type |-> "add_operator", stationId |-> ST001, value |-> Num(1)],
                         [type |-> "add_operator", stationId |-> ST001, value |-> Num(1)]>>
    /\ modifiedStations[1].operatorCount = Num(4)
    /\ modifiedStations[1].avgCycleTime = Fin(185, 2)

\* C20: when the last change that targets a station is change_cycle_time with
\* value x, the projected station runs at exactly x, whatever came before, and
\* the projected metrics are those of the line with that station at x; when
\* an add_operator or remove_operator is the last change and a
\* change_cycle_time came before it, the cycle time is the one computed from
\* the original average alone and x plays no part.
C20_ChangeCycleTimeOverrides ==
    pc = "returned" =>
        \A a \in 1..Len(input.stations) :
            LET sc == ChangesFor(a)
                last == sc[Len(sc)]
                station == input.stations[a]
            IN  /\ (Len(sc) >= 1 /\ last.type = "change_cycle_time")
                       => /\ modifiedStations[a].avgCycleTime = last.value
                          /\ results.projected = calculateLineMetrics(modifiedStations)
                /\ (/\ Len(sc) >= 2
                    /\ \E j \in 1..(Len(sc) - 1) : sc[j].type = "change_cycle_time")
                       => /\ last.type = "add_operator"
                                 => modifiedStations[a].avgCycleTime
                                        = Mul(station.avgCycleTime,
                                              Sub(Num(1),
                                                  Div(Mul(Fin(15, 100), last.value),
                                                      MathSqrt(modifiedStations[a].operatorCount))))
                          /\ last.type = "remove_operator"
                                 => modifiedStations[a].avgCycleTime
                                        = Mul(station.avgCycleTime,
                                              Add(Num(1), Mul(Fin(2, 10), last.value)))

\* C20 witness: the cycle time of a station running at 100 s is set to 120 s
\* and two operators are then removed: the projection is 100 * 1.4 = 140 s
C20_Witness ==
    /\ pc = "returned"
    /\ Len(input.stations) >= 1
    /\ input.stations[1].avgCycleTime = Num(100)
    /\ input.changes
           = <<[type |-> "change_cycle_time", stationId |-> ST001, value |-> Num(120)],
               [type |-> "remove_operator", stationId |-> ST001, value |-> Num(2)]>>
    /\ modifiedStations[1].avgCycleTime = Num(140)

\* C17: the list getActiveAlerts returns holds unacknowledged alerts only,
\* with every critical alert before every warning and every warning before
\* every alert of another severity; and an alert acknowledgeAlert has run for
\* is in no list returned afterwards, whatever operations come in between.
C17_ActiveAlertsUnacknowledgedAndRanked ==
    response.op = "getActiveAlerts" =>
        /\ \A i \in 1..Len(response.rows) :
               /\ response.rows[i].acknowledged = 0
               /\ response.rows[i].id \notin acknowledgedAlerts
        /\ \A i, j \in 1..Len(response.rows) :
               i < j =>
                   /\ response.rows[j].severity = "critical"
                          => response.rows[i].severity = "critical"
                   /\ response.rows[j].severity = "warning"
                          => response.rows[i].severity \in {"critical", "warning"}

\* C17 witness: of three alerts, one was acknowledged, and the list returned
\* holds the other two, the critical one first although it was inserted after
\* the warning
C17_Witness ==
    /\ response.op = "getActiveAlerts"
    /\ Len(alerts) = 3
    /\ acknowledgedAlerts # {}
    /\ Len(response.rows) = 2
    /\ response.rows[1].severity = "critical"
    /\ response.rows[2].severity = "warning"
    /\ response.rows[1].id > response.rows[2].id

\* C15: analyzeBottlenecks and runSimulation keep no state between calls:
\* however the steps of several calls interleave, each call returns the
\* result the function gives for its arguments on its own, and two calls with
\* equal arguments return equal results.
C15_CallsIndependent ==
    \A c \in DOMAIN calls :
        calls[c].pc = "returned" =>
            /\ calls[c].fn = "analyzeBottlenecks"
                   => calls[c].result \in analyzeBottlenecks(calls[c].args.stationData,
                                                            calls[c].args.shiftData)
            /\ calls[c].fn = "runSimulation"
                   => calls[c].result = runSimulation(calls[c].args)
            /\ \A d \in DOMAIN calls :
                   (/\ calls[d].pc = "returned"
                    /\ calls[d].fn = calls[c].fn
                    /\ calls[d].args = calls[c].args)
                   => calls[d].result = calls[c].result

\* C15 witness: the second call of analyzeBottlenecks has run from entry to
\* return, and returned its two findings exchanged by the sort, while the
\* first call was between two iterations of its loop
C15_Witness ==
    /\ calls # <<>>
    /\ calls[1].fn = "analyzeBottlenecks"
    /\ calls[1].pc = "loop"
    /\ Len(calls[1].args.stationData) = 2
    /\ locals[1].i = 2
    /\ Len(locals[1].analyses) = 1
    /\ calls[2].fn = "analyzeBottlenecks"
    /\ calls[2].pc = "returned"
    /\ Len(calls[2].result) = 2
    /\ calls[2].result[1].stationId = calls[2].args.stationData[2].station_id
    /\ calls[2].result[1].stationId # calls[2].result[2].stationId

RecommendationTypesFor(cause) ==
    IF cause.type = "shift" THEN <<"training">>
    ELSE IF cause.type = "operator" THEN <<"add_operator", "training">>
    ELSE IF cause.type = "equipment" THEN <<"equipment", "maintenance">>
    ELSE <<>>

RECURSIVE ExpectedTypes(_, _)
\* the types the root causes from cause i on yield, in order
ExpectedTypes(rootCauses, i) ==
    IF i > Len(rootCauses) THEN <<>>
    ELSE RecommendationTypesFor(rootCauses[i]) \o ExpectedTypes(rootCauses, i + 1)

\* the types of the recommendations of a finding, in list order
TypesOf(f) == [k \in 1..Len(f.recommendations) |-> f.recommendations[k].type]

\* C23: the recommendations follow the root causes in order: one training
\* recommendation per shift cause, add_operator then training per operator
\* cause, equipment then maintenance per equipment cause, so two equipment
\* causes give two equipment and maintenance pairs.
C23_RecommendationsFollowCauses ==
    \A f \in Findings :
        SelectSeq(TypesOf(f), LAMBDA t : t # "rebalance") = ExpectedTypes(f.rootCauses, 1)

\* C23 witness: a finding whose two root causes are both equipment causes and
\* whose recommendations are two equipment and maintenance pairs
C23_Witness ==
    \E f \in Findings :
        /\ Len(f.rootCauses) = 2
        /\ f.rootCauses[1].type = "equipment"
        /\ f.rootCauses[2].type = "equipment"
        /\ TypesOf(f) = <<"equipment", "maintenance", "equipment", "maintenance">>

\* the positions of the rebalance recommendations of a finding
RebalancePositions(f) ==
    {k \in 1..Len(f.recommendations) : f.recommendations[k].type = "rebalance"}

\* C24: a finding has a rebalance recommendation iff its impactScore is
\* strictly greater than 50 (exactly 50 gives none); there is then exactly
\* one, it is the last recommendation, and its expected improvement is 15.
C24_RebalanceAboveFifty ==
    \A f \in Findings :
        /\ RebalancePositions(f) # {} <=> Gt(f.impactScore, Num(50))
        /\ Cardinality(RebalancePositions(f)) <= 1
        /\ \A k \in RebalancePositions(f) :
               /\ k = Len(f.recommendations)
               /\ f.recommendations[k].expectedImprovement = Num(15)

\* C24 witness: a finding with impactScore 51 whose third and last
\* recommendation is the rebalance one
C24_Witness ==
    \E f \in Findings :
        /\ f.impactScore = Num(51)
        /\ Len(f.recommendations) = 3
        /\ f.recommendations[3].type = "rebalance"
        /\ f.recommendations[3].expectedImprovement = Num(15)

\* the shift rows of the call that carry the id of the station, in list order
ShiftRowsOf(station) ==
    SelectSeq(shiftData, LAMBDA s : s.station_id = station.station_id)

\* the shifts present in the rows
ShiftLabels(rows) == {rows[i].shift : i \in 1..Len(rows)}

\* the average of a shift present in the rows (that of its last row)
ShiftAverage(rows, label) ==
    rows[CHOOSE i \in 1..Len(rows) :
             /\ rows[i].shift = label
             /\ \A j \in (i + 1)..Len(rows) : rows[j].shift # label].avg_cycle_time

\* the shift causes of a finding
ShiftCausesOf(f) == SelectSeq(f.rootCauses, LAMBDA c : c.type = "shift")

\* C25: a finding has a shift cause iff at least two shifts are present for
\* its station id and (max shift average - min shift average) / target * 100
\* is above 10; the cause names a shift with the highest average, has
\* confidence min(0.9, shiftVariancePercent / 20) and is the first root cause;
\* the shift rows of other stations play no part.
C25_ShiftCause ==
    \A f \in Findings :
        \A i \in 1..Len(stationData) :
            LET station == stationData[i]
                rows == ShiftRowsOf(station)
                averages == {ShiftAverage(rows, l) : l \in ShiftLabels(rows)}
                highest == CHOOSE m \in averages : \A x \in averages : Le(x, m)
                lowest == CHOOSE m \in averages : \A x \in averages : Ge(x, m)
                shiftVariancePercent ==
                    Mul(Div(Sub(highest, lowest), station.target_cycle_time), Num(100))
            IN  (/\ Truthy(station.avg_cycle_time)
                 /\ f.stationId = station.station_id
                 /\ f.variancePercent = OrZero(station.variance_percent)
                 /\ f.targetCycleTime = station.target_cycle_time)
                => IF Cardinality(ShiftLabels(rows)) >= 2 /\ Gt(shiftVariancePercent, Num(10))
                   THEN /\ Len(ShiftCausesOf(f)) = 1
                        /\ f.rootCauses[1].type = "shift"
                        /\ f.rootCauses[1].description.shift \in ShiftLabels(rows)
                        /\ ShiftAverage(rows, f.rootCauses[1].description.shift) = highest
                        /\ f.rootCauses[1].confidence
                               = MathMin(Fin(9, 10), Div(shiftVariancePercent, Num(20)))
                   ELSE Len(ShiftCausesOf(f)) = 0

\* C25 witness: day shift at 100 s and night shift at 112 s on a target of
\* 90 s: a shift cause naming the night shift with confidence 13.3 / 20
C25_Witness ==
    \E f \in Findings :
        /\ Len(shiftData) = 2
        /\ f.targetCycleTime = Num(90)
        /\ Len(f.rootCauses) >= 1
        /\ f.rootCauses[1].type = "shift"
        /\ f.rootCauses[1].description.shift = "Night"
        /\ f.rootCauses[1].confidence = Fin(2, 3)

\* the rule a root cause comes from: 1 shift, 2 operator or consistent
\* slowness, 3 downtime
RuleOf(cause) ==
    IF cause.type = "shift" THEN 1
    ELSE IF cause.type = "operator" THEN 2
    ELSE IF cause.description.text
                = "Consistently slow performance suggests equipment limitations"
         THEN 2
    ELSE 3

\* C27: no finding has both the operator cause and the consistent-slowness
\* equipment cause; so a finding has at most 3 root causes, in the order
\* shift, then operator or consistent slowness, then downtime, and at most 6
\* recommendations.
C27_OperatorExcludesSlowness ==
    \A f \in Findings :
        /\ \A a, b \in 1..Len(f.rootCauses) :
               a < b => RuleOf(f.rootCauses[a]) < RuleOf(f.rootCauses[b])
        /\ Len(f.rootCauses) <= 3
        /\ Len(f.recommendations) <= 6

\* C27 witness: a finding with a shift cause, the consistent-slowness cause
\* and the downtime cause, and six recommendations
C27_Witness ==
    \E f \in Findings :
        /\ Len(f.rootCauses) = 3
        /\ RuleOf(f.rootCauses[1]) = 1
        /\ f.rootCauses[2].type = "equipment"
        /\ RuleOf(f.rootCauses[2]) = 2
        /\ RuleOf(f.rootCauses[3]) = 3
        /\ Len(f.recommendations) = 6

\* the positions of the stations whose cycle time is the maximum of the list
MaximumPositions(stations) ==
    {i \in 1..Len(stations) :
        \A j \in 1..Len(stations) : Ge(stations[i].avgCycleTime, stations[j].avgCycleTime)}

\* the id of the first station at the maximum cycle time
FirstMaximum(stations) ==
    stations[CHOOSE i \in MaximumPositions(stations) :
                 \A j \in MaximumPositions(stations) : i <= j].id

\* C21: calculateLineMetrics reports as bottleneck the first station in input
\* order whose cycle time is the maximum over all stations, in the baseline
\* (over the input stations) and in the projection (over the modified ones).
C21_BottleneckIsFirstMaximum ==
    pc = "returned" /\ results # NoResults =>
        /\ MaximumPositions(input.stations) # {}
               => results.baseline.bottleneckStation = FirstMaximum(input.stations)
        /\ MaximumPositions(modifiedStations) # {}
               => results.projected.bottleneckStation = FirstMaximum(modifiedStations)

\* the list without its k-th element
Without(list, k) == SubSeq(list, 1, k - 1) \o SubSeq(list, k + 1, Len(list))

\* C28: a station no change targets is projected with the operatorCount and
\* avgCycleTime of the input, and a change whose stationId is the id of no
\* station of the list has no effect: the projected result is the one of the
\* call without that change.
C28_OnlyTargetedStationsChange ==
    pc = "returned" =>
        /\ \A a \in 1..Len(input.stations) :
               ChangesFor(a) = <<>> =>
                   /\ modifiedStations[a].operatorCount = input.stations[a].operatorCount
                   /\ modifiedStations[a].avgCycleTime = input.stations[a].avgCycleTime
        /\ \A k \in 1..Len(input.changes) :
               (\A a \in 1..Len(input.stations) :
                    input.stations[a].id # input.changes[k].stationId)
               => results.projected
                      = runSimulation([stations |-> input.stations,
                                       changes |-> Without(input.changes, k)]).projected

\* C28 witness: on a line of one station, an operator added to a station that
\* is not on the line leaves the projection equal to the baseline
C28_Witness ==
    /\ pc = "returned"
    /\ Len(input.stations) = 1
    /\ input.stations[1].id = ST001
    /\ input.changes = <<[type |-> "add_operator", stationId |-> ST002, value |-> Num(1)]>>
    /\ modifiedStations = input.stations
    /\ results.projected = results.baseline

\* the entries of QUERY_PATTERNS whose pattern the query matches
MatchingPatterns == {i \in 1..Len(QUERY_PATTERNS) : test(QUERY_PATTERNS[i], query)}

\* C26: parseNaturalLanguageQuery returns the SQL template and the intent of
\* the earliest entry of QUERY_PATTERNS whose pattern the query matches, and
\* for a query that matches no pattern the general station-variance query
\* with action 'find'.
C26_FirstMatchWins ==
    pc = "returned" /\ parsed # NoParse =>
        LET matching == MatchingPatterns
        IN  IF matching = {}
            THEN /\ parsed.sql.template = "station_variance"
                 /\ parsed.intent.action = "find"
            ELSE \E i \in matching :
                     /\ \A j \in matching : i <= j
                     /\ parsed.sql.template = QUERY_PATTERNS[i].sqlTemplate
                     /\ parsed.intent = QUERY_PATTERNS[i].intent

\* a query with 'defect' before 'Trend' has been given the trend template
C26_Witness ==
    /\ pc = "returned"
    /\ query = <<"d", "e", "f", "e", "c", "t", " ", "T", "r", "e", "n", "d">>
    /\ MatchingPatterns = {3, 4}
    /\ parsed.sql.template = "by_date"
    /\ parsed.intent.action = "trend"

\* the ids of the alerts in the displayed list
DisplayedIds == {displayed[i].id : i \in 1..Len(displayed)}

\* C29: an alert that handleAcknowledgeAlert has removed from the displayed
\* list is not in the list again, whatever the interleaving of
\* acknowledgements and refreshes.
C29_AcknowledgedAlertStaysRemoved == \A id \in removed : id \notin DisplayedIds

RECURSIVE PassedSince(_, _, _)
\* the sum of the values the calls of a log passed to addChange for a pair,
\* counted from the last resetChanges
PassedSince(log, stationId, type) ==
    IF log = <<>> THEN 0
    ELSE LET call == log[Len(log)]
             before == PassedSince(SubSeq(log, 1, Len(log) - 1), stationId, type)
         IN  IF call.op = "resetChanges" THEN 0
             ELSE IF call.op = "addChange" /\ call.stationId = stationId /\ call.type = type
                  THEN before + call.value
             ELSE before

\* C30: after any sequence of addChange and resetChanges the pending changes
\* hold at most one entry per (stationId, type), no entry has value 0, the
\* value of an entry is the sum of the values passed to addChange for its
\* pair since the pair was last absent (an entry leaves the list when its sum
\* comes to 0, so that sum is the one counted from the last resetChanges),
\* and the results are null right after addChange and resetChanges.
C30_PendingChangesAccumulate ==
    /\ \A i, j \in 1..Len(panelChanges) :
           /\ panelChanges[i].stationId = panelChanges[j].stationId
           /\ panelChanges[i].type = panelChanges[j].type
           => i = j
    /\ \A i \in 1..Len(panelChanges) :
           /\ panelChanges[i].value # Zero
           /\ panelChanges[i].value =
                  Num(PassedSince(panelLog, panelChanges[i].stationId, panelChanges[i].type))
    /\ pc \in {"addChange", "resetChanges"} => panelResults = NoResults

\* results were shown for one added operator at ST001; a second click on the
\* plus button has made the entry 2 and cleared the results
C30_Witness ==
    /\ pc = "addChange"
    /\ Len(panelLog) = 3
    /\ panelLog[2].op = "setResults"
    /\ panelChanges = <<[type |-> "add_operator", stationId |-> ST001, value |-> Num(2)]>>
    /\ getOperatorChange(panelChanges, ST001) = Num(2)
    /\ panelResults = NoResults

====
